---- MODULE Spec2Model ----
(***************************************************************************)
(* Slack analyst bot: intent router (core/subsystem_1/router.py), message  *)
(* handler (main.py) and the agent operations it dispatches to             *)
(* (core/subsystem_2/pandas_agent.py).                                     *)
(*                                                                         *)
(* Python strings are sequences of one-character strings, so that the      *)
(* substring, prefix, strip and split tests of the code are computed on    *)
(* characters.                                                             *)
(***************************************************************************)
EXTENDS Integers, Sequences, FiniteSets, TLC

(* ------------------------------ strings -------------------------------- *)

\* str.lower() on one character (ASCII letters)
LowerChar(c) ==
    CASE c = "A" -> "a" [] c = "B" -> "b" [] c = "C" -> "c" [] c = "D" -> "d"
      [] c = "E" -> "e" [] c = "F" -> "f" [] c = "G" -> "g" [] c = "H" -> "h"
      [] c = "I" -> "i" [] c = "J" -> "j" [] c = "K" -> "k" [] c = "L" -> "l"
      [] c = "M" -> "m" [] c = "N" -> "n" [] c = "O" -> "o" [] c = "P" -> "p"
      [] c = "Q" -> "q" [] c = "R" -> "r" [] c = "S" -> "s" [] c = "T" -> "t"
      [] c = "U" -> "u" [] c = "V" -> "v" [] c = "W" -> "w" [] c = "X" -> "x"
      [] c = "Y" -> "y" [] c = "Z" -> "z" [] OTHER -> c

\* str.upper() on one character (ASCII letters)
UpperChar(c) ==
    CASE c = "a" -> "A" [] c = "b" -> "B" [] c = "c" -> "C" [] c = "d" -> "D"
      [] c = "e" -> "E" [] c = "f" -> "F" [] c = "g" -> "G" [] c = "h" -> "H"
      [] c = "i" -> "I" [] c = "j" -> "J" [] c = "k" -> "K" [] c = "l" -> "L"
      [] c = "m" -> "M" [] c = "n" -> "N" [] c = "o" -> "O" [] c = "p" -> "P"
      [] c = "q" -> "Q" [] c = "r" -> "R" [] c = "s" -> "S" [] c = "t" -> "T"
      [] c = "u" -> "U" [] c = "v" -> "V" [] c = "w" -> "W" [] c = "x" -> "X"
      [] c = "y" -> "Y" [] c = "z" -> "Z" [] OTHER -> c

Lower(s) == [i \in 1..Len(s) |-> LowerChar(s[i])]

Upper(s) == [i \in 1..Len(s) |-> UpperChar(s[i])]

\* the characters str.strip() and str.split() treat as whitespace
Whitespace == {" ", "\n", "\t", "\r"}

\* str.strip()
Strip(s) ==
    LET solid == {i \in 1..Len(s) : s[i] \notin Whitespace}
    IN  IF solid = {} THEN <<>>
        ELSE LET first == CHOOSE i \in solid : \A j \in solid : i <= j
                 last  == CHOOSE i \in solid : \A j \in solid : j <= i
             IN  SubSeq(s, first, last)

\* k in s  (substring test)
Contains(s, k) ==
    \E i \in 0..(Len(s) - Len(k)) : \A j \in 1..Len(k) : s[i + j] = k[j]

\* s.startswith(k)
StartsWith(s, k) ==
    /\ Len(k) <= Len(s)
    /\ \A j \in 1..Len(k) : s[j] = k[j]

\* any(k in s for k in keywords)
HasAny(s, keywords) == \E k \in keywords : Contains(s, k)

\* the positions where a whitespace-separated word of s starts
WordStarts(s) ==
    {i \in 1..Len(s) : s[i] \notin Whitespace /\ (i = 1 \/ s[i - 1] \in Whitespace)}

\* len(s.split())
WordCount(s) == Cardinality(WordStarts(s))

\* s.split()[0], or the empty string when s.split() is empty
FirstWord(s) ==
    LET starts == WordStarts(s)
    IN  IF starts = {} THEN <<>>
        ELSE LET b == CHOOSE i \in starts : \A j \in starts : i <= j
                 stops == {i \in b..Len(s) : i = Len(s) \/ s[i + 1] \in Whitespace}
                 e == CHOOSE i \in stops : \A j \in stops : i <= j
             IN  SubSeq(s, b, e)

(* ------------------------- router.py: keywords ------------------------- *)

HELP_KEYWORDS ==
    { <<"h","e","l","p">>,
      <<"h","o","w"," ","d","o"," ","i">>,
      <<"w","h","a","t"," ","c","a","n"," ","y","o","u"," ","d","o">>,
      <<"c","o","m","m","a","n","d","s">> }

SMALL_TALK_KEYWORDS ==
    { <<"h","i">>,
      <<"h","e","l","l","o">>,
      <<"h","e","y">>,
      <<"t","h","a","n","k","s">>,
      <<"t","h","a","n","k"," ","y","o","u">>,
      <<"y","o">> }

USERS_KEYWORDS ==
    { <<"u","s","e","r">>,
      <<"u","s","e","r","s">>,
      <<"s","i","g","n","u","p">>,
      <<"s","i","g","n","u","p","s">>,
      <<"c","o","u","n","t","r","y">>,
      <<"r","e","g","i","o","n">>,
      <<"c","o","h","o","r","t">> }

PAYMENTS_KEYWORDS ==
    { <<"p","a","y","m","e","n","t">>,
      <<"p","a","y","m","e","n","t","s">>,
      <<"r","e","v","e","n","u","e">>,
      <<"i","n","c","o","m","e">>,
      <<"g","m","v">>,
      <<"s","a","l","e","s">>,
      <<"s","a","l","e">>,
      <<"o","r","d","e","r","s">>,
      <<"o","r","d","e","r">>,
      <<"t","r","a","n","s","a","c","t","i","o","n","s">>,
      <<"t","r","a","n","s","a","c","t","i","o","n">>,
      <<"s","p","e","n","d">>,
      <<"s","p","e","n","d","i","n","g">> }

SUBSCRIPTIONS_KEYWORDS ==
    { <<"s","u","b","s","c","r","i","p","t","i","o","n">>,
      <<"s","u","b","s","c","r","i","p","t","i","o","n","s">>,
      <<"p","l","a","n">>,
      <<"p","l","a","n","s">>,
      <<"c","h","u","r","n">>,
      <<"c","a","n","c","e","l">>,
      <<"r","e","n","e","w","a","l">> }

SESSIONS_KEYWORDS ==
    { <<"s","e","s","s","i","o","n">>,
      <<"s","e","s","s","i","o","n","s">>,
      <<"e","n","g","a","g","e","m","e","n","t">>,
      <<"a","c","t","i","v","i","t","y">>,
      <<"u","s","a","g","e">>,
      <<"v","i","s","i","t">>,
      <<"v","i","s","i","t","s">> }

PREDICTION_KEYWORDS ==
    { <<"p","r","e","d","i","c","t">>,
      <<"f","o","r","e","c","a","s","t">>,
      <<"f","u","t","u","r","e">>,
      <<"e","s","t","i","m","a","t","e">>,
      <<"p","r","o","j","e","c","t","i","o","n">>,
      <<"n","e","x","t"," ","y","e","a","r">>,
      <<"w","i","l","l"," ","b","e">>,
      <<"g","o","i","n","g"," ","t","o">> }

SQL_KEYWORDS ==
    { <<"s","e","l","e","c","t">>,
      <<"w","i","t","h">>,
      <<"s","h","o","w">>,
      <<"e","x","p","l","a","i","n">>,
      <<"d","e","s","c","r","i","b","e">> }

SQL_QUERY_INDICATORS ==
    { <<"s","q","l",":">>,
      <<"q","u","e","r","y",":">>,
      <<"r","u","n"," ","s","q","l">>,
      <<"e","x","e","c","u","t","e"," ","s","q","l">>,
      <<"r","u","n"," ","q","u","e","r","y">> }

LIST_QUERIES_KEYWORDS ==
    { <<"l","i","s","t"," ","q","u","e","r","i","e","s">>,
      <<"s","h","o","w"," ","q","u","e","r","i","e","s">>,
      <<"a","v","a","i","l","a","b","l","e"," ","q","u","e","r","i","e","s">>,
      <<"g","o","l","d","e","n"," ","q","u","e","r","i","e","s">>,
      <<"w","h","a","t"," ","q","u","e","r","i","e","s">>,
      <<"q","u","e","r","y"," ","e","x","a","m","p","l","e","s">> }

GENERATE_SQL_KEYWORDS ==
    { <<"c","r","e","a","t","e"," ","s","q","l">>,
      <<"g","e","n","e","r","a","t","e"," ","s","q","l">>,
      <<"m","a","k","e"," ","s","q","l">>,
      <<"w","r","i","t","e"," ","s","q","l">>,
      <<"b","u","i","l","d"," ","s","q","l">>,
      <<"s","q","l"," ","q","u","e","r","y"," ","f","o","r">>,
      <<"c","r","e","a","t","e"," ","m","e"," ","s","q","l">>,
      <<"g","e","n","e","r","a","t","e"," ","m","e"," ","s","q","l">> }

DATA_PHRASES ==
    { <<"h","o","w"," ","m","a","n","y">>,
      <<"w","h","a","t"," ","i","s">>,
      <<"w","h","a","t"," ","a","r","e">>,
      <<"s","h","o","w"," ","m","e">>,
      <<"t","r","e","n","d">>,
      <<"a","v","e","r","a","g","e">>,
      <<"t","o","t","a","l">>,
      <<"s","u","m">>,
      <<"b","y"," ","c","o","u","n","t","r","y">>,
      <<"b","y"," ","r","e","g","i","o","n">>,
      <<"b","y"," ","p","r","o","d","u","c","t">>,
      <<"o","v","e","r"," ","t","i","m","e">>,
      <<"s","e","g","m","e","n","t">> }

HOLIDAY_KEYWORDS ==
    { <<"h","o","l","i","d","a","y">>,
      <<"b","l","a","c","k"," ","f","r","i","d","a","y">>,
      <<"c","y","b","e","r"," ","m","o","n","d","a","y">>,
      <<"c","h","r","i","s","t","m","a","s">>,
      <<"x","m","a","s">>,
      <<"n","e","w"," ","y","e","a","r">>,
      <<"q","4">> }


Intents ==
    {"help", "small_talk", "data_question", "prediction", "sql_query",
     "list_queries", "generate_sql", "unknown"}

Datasets == {"users", "payments", "subscriptions", "sessions", "none"}

RouteDecision(i, d, r) == [intent |-> i, dataset |-> d, reason |-> r]

\* the dataset variable left at its initial value
ResolveDatasetNone(lower) == "none"

\* the four sequential overwriting checks of the dataset variable
ResolveDataset(lower) ==
    LET d0 == "none"
        d1 == IF HasAny(lower, USERS_KEYWORDS) THEN "users" ELSE d0
        d2 == IF HasAny(lower, PAYMENTS_KEYWORDS) THEN "payments" ELSE d1
        d3 == IF HasAny(lower, SUBSCRIPTIONS_KEYWORDS) THEN "subscriptions" ELSE d2
        d4 == IF HasAny(lower, SESSIONS_KEYWORDS) THEN "sessions" ELSE d3
    IN  d4

\* the first category that matches, in place of the last
GenerateSqlDatasetFirstMatch(lower) ==
    IF HasAny(lower, USERS_KEYWORDS) THEN "users"
    ELSE IF HasAny(lower, PAYMENTS_KEYWORDS) THEN "payments"
    ELSE IF HasAny(lower, SUBSCRIPTIONS_KEYWORDS) THEN "subscriptions"
    ELSE IF HasAny(lower, SESSIONS_KEYWORDS) THEN "sessions"
    ELSE "none"

\* router.py:74-82  the same four checks, written out again inside the
\* generate-SQL branch
GenerateSqlDataset(lower) ==
    LET d0 == "none"
        d1 == IF HasAny(lower, USERS_KEYWORDS) THEN "users" ELSE d0
        d2 == IF HasAny(lower, PAYMENTS_KEYWORDS) THEN "payments" ELSE d1
        d3 == IF HasAny(lower, SUBSCRIPTIONS_KEYWORDS) THEN "subscriptions" ELSE d2
        d4 == IF HasAny(lower, SESSIONS_KEYWORDS) THEN "sessions" ELSE d3
    IN  d4

\* the test with equality in place of the substring test
matches_help_exact(lower) == lower \in HELP_KEYWORDS

\* router.py:64  any(k in lower for k in HELP_KEYWORDS)
matches_help(lower) == HasAny(lower, HELP_KEYWORDS)

\* the test without the leading-keyword and select-from checks
is_sql_query_indicators_only(text, lower) == HasAny(lower, SQL_QUERY_INDICATORS)

\* the test with the leading keyword compared in the case of the text
is_sql_query_case_sensitive(text, lower) ==
    \/ \E k \in SQL_KEYWORDS : StartsWith(Strip(text), k)
    \/ HasAny(lower, SQL_QUERY_INDICATORS)

\* router.py:99-103
is_sql_query(text, lower) ==
    \/ \E k \in SQL_KEYWORDS : StartsWith(Lower(Strip(text)), k)
    \/ HasAny(lower, SQL_QUERY_INDICATORS)
    \/ (Contains(lower, <<"s","e","l","e","c","t">>)
          /\ (Contains(lower, <<"f","r","o","m">>) \/ Contains(lower, <<"w","h","e","r","e">>)))

\* the test without the condition on the dataset
is_prediction_any_dataset(lower, dataset) == HasAny(lower, PREDICTION_KEYWORDS)

\* router.py:125-126  mentions_prediction and dataset == "subscriptions"
is_prediction(lower, dataset) ==
    HasAny(lower, PREDICTION_KEYWORDS) /\ dataset = "subscriptions"

\* the test without the bound on the number of words
is_small_talk_any_length(lower) == HasAny(lower, SMALL_TALK_KEYWORDS)

\* router.py:152  len(lower.split()) <= 4 and any(k in lower for k in SMALL_TALK_KEYWORDS)
is_small_talk(lower) ==
    WordCount(lower) <= 4 /\ HasAny(lower, SMALL_TALK_KEYWORDS)

\* f"Looks like a data question (dataset={final_dataset})"
DataQuestionReason(d) ==
    CASE d = "users" -> "Looks like a data question (dataset=users)"
      [] d = "payments" -> "Looks like a data question (dataset=payments)"
      [] d = "subscriptions" -> "Looks like a data question (dataset=subscriptions)"
      [] d = "sessions" -> "Looks like a data question (dataset=sessions)"
      [] OTHER -> "Looks like a data question (dataset=none)"

\* router.py:55-164
\* the dataset left as inferred
HolidayDefaultNever(mentions_holiday, dataset) == dataset

\* router.py:137-139  if mentions_holiday and dataset == "none": dataset = "payments"
HolidayDefault(mentions_holiday, dataset) ==
    IF mentions_holiday /\ dataset = "none" THEN "payments" ELSE dataset

route_message(text) ==
    LET lower == Strip(Lower(text))
    IN  IF matches_help(lower)
        THEN RouteDecision("help", "none", "Matched help keywords")
        ELSE IF HasAny(lower, GENERATE_SQL_KEYWORDS)
        THEN RouteDecision("generate_sql", GenerateSqlDataset(lower), "Matched generate SQL keywords")
        ELSE IF HasAny(lower, LIST_QUERIES_KEYWORDS)
        THEN RouteDecision("list_queries", "none", "Matched list queries keywords")
        ELSE IF is_sql_query(text, lower)
        THEN RouteDecision("sql_query", "none", "Detected SQL query syntax")
        ELSE
          LET dataset == ResolveDataset(lower)
          IN  IF is_prediction(lower, dataset)
              THEN RouteDecision("prediction", "subscriptions",
                                 "Matched prediction keywords with subscriptions dataset")
              ELSE
                LET looks_like_data_question == HasAny(lower, DATA_PHRASES)
                    mentions_holiday == HasAny(lower, HOLIDAY_KEYWORDS)
                    dataset2 == HolidayDefault(mentions_holiday, dataset)
                    final_dataset == IF dataset2 # "none" THEN dataset2 ELSE "none"
                IN  IF dataset2 # "none" \/ looks_like_data_question \/ mentions_holiday
                    THEN RouteDecision("data_question", final_dataset,
                                       DataQuestionReason(final_dataset))
                    ELSE IF is_small_talk(lower)
                    THEN RouteDecision("small_talk", "none",
                                       "Matched small-talk keywords on short message")
                    ELSE RouteDecision("unknown", "none", "No keyword or pattern matched")

(* ----------------------- message texts (inputs) ------------------------ *)

Phrases ==
    { <<"H","e","l","p">>,
      <<"c","o","m","m","a","n","d","s">>,
      <<"g","e","n","e","r","a","t","e"," ","s","q","l">>,
      <<"s","h","o","w"," ","q","u","e","r","i","e","s">>,
      <<"S","E","L","E","C","T">>,
      <<"f","r","o","m">>,
      <<"w","i","t","h">>,
      <<"s","h","o","w"," ","m","e">>,
      <<"e","x","p","l","a","i","n">>,
      <<"s","q","l",":">>,
      <<"u","s","e","r","s">>,
      <<"u","s","e","r"," ","s","e","s","s","i","o","n","s">>,
      <<"c","h","u","r","n"," ","b","y"," ","r","e","g","i","o","n">>,
      <<"r","e","v","e","n","u","e">>,
      <<"s","u","b","s","c","r","i","p","t","i","o","n","s">>,
      <<"s","e","s","s","i","o","n","s">>,
      <<"p","r","e","d","i","c","t">>,
      <<"h","o","w"," ","m","a","n","y">>,
      <<"b","y"," ","c","o","u","n","t","r","y">>,
      <<"q","4">>,
      <<"h","e","l","l","o">>,
      <<"t","h","i","s">>,
      <<"x","y","z">>,
      <<"c","a","n"," ","y","o","u"," ","p","l","e","a","s","e"," ","t","e","l","l"," ","m","e">> }

\* a message is at most MaxPhrases phrases joined by single spaces
MaxPhrases == 2

RECURSIVE Join(_)
Join(ps) ==
    IF Len(ps) = 0 THEN <<>>
    ELSE IF Len(ps) = 1 THEN ps[1]
    ELSE ps[1] \o <<" ">> \o Join(Tail(ps))

PhraseLists == UNION {[1..n -> Phrases] : n \in 0..MaxPhrases}

\* with and without surrounding whitespace
Texts ==
    {Join(ps) : ps \in PhraseLists} \cup {<<" ">> \o Join(ps) \o <<"\n">> : ps \in PhraseLists}

\* the texts of the events the bot receives: one for every intent
Messages ==
    { <<"h","e","l","p">>,
      <<"h","e","l","l","o">>,
      <<"h","o","w"," ","m","a","n","y"," ","u","s","e","r","s">>,
      <<"p","r","e","d","i","c","t"," ","s","u","b","s","c","r","i","p","t","i","o","n","s">>,
      <<"S","E","L","E","C","T"," ","*"," ","F","R","O","M"," ","u","s","e","r","s">>,
      <<"l","i","s","t"," ","q","u","e","r","i","e","s">>,
      <<"g","e","n","e","r","a","t","e"," ","s","q","l"," ","f","o","r"," ","s","u","b","s","c","r","i","p","t","i","o","n","s">>,
      <<"x","y","z">> }

(* ------------------- exact arithmetic for the floats ------------------- *)
\* A Python float is modelled by the exact rational it approximates: a pair
\* <<numerator, denominator>> in lowest terms with a positive denominator.

Abs(a) == IF a < 0 THEN -a ELSE a

RECURSIVE GCD(_, _)
GCD(a, b) == IF b = 0 THEN a ELSE GCD(b, a % b)

Rat(n, d) ==
    LET g == GCD(Abs(n), Abs(d))
        sgn == IF d < 0 THEN -1 ELSE 1
    IN  <<(sgn * n) \div g, (sgn * d) \div g>>

FromInt(a) == <<a, 1>>

RAdd(p, q) == Rat(p[1] * q[2] + q[1] * p[2], p[2] * q[2])

RSub(p, q) == Rat(p[1] * q[2] - q[1] * p[2], p[2] * q[2])

RMul(p, q) == Rat(p[1] * q[1], p[2] * q[2])

\* p / a for a non-zero integer a
RDivInt(p, a) == Rat(p[1], p[2] * a)

RLess(p, q) == p[1] * q[2] < q[1] * p[2]

\* the value without the clamp at zero
RMax0Unclamped(p) == p

\* max(0.0, p)
RMax0(p) == IF p[1] < 0 THEN <<0, 1>> ELSE p

\* the integer printed by the format specification ',.0f' (round half to even)
Round0(p) ==
    LET q == p[1] \div p[2]
        twice == 2 * (p[1] - q * p[2])
    IN  IF twice < p[2] THEN q
        ELSE IF twice > p[2] THEN q + 1
        ELSE IF q % 2 = 0 THEN q ELSE q + 1

RECURSIVE SumSeq(_)
SumSeq(xs) == IF Len(xs) = 0 THEN 0 ELSE Head(xs) + SumSeq(Tail(xs))

RECURSIVE RSumSeq(_)
RSumSeq(ps) == IF Len(ps) = 0 THEN <<0, 1>> ELSE RAdd(Head(ps), RSumSeq(Tail(ps)))

(* ----------------- pandas_agent.py: prediction functions --------------- *)
\* A monthly count is <<year, month, count>>.

\* the offset computed from the month numbers alone
MonthsDiffSameYear(entry, first) == entry[2] - first[2]

\* (year - first_year) * 12 + (month - first_month)
MonthsDiff(entry, first) == (entry[1] - first[1]) * 12 + (entry[2] - first[2])

\* the test with a threshold of one data point
TooFewPointsEmptyOnly(historical_data) == Len(historical_data) < 1

\* pandas_agent.py:284  len(historical_data) < 2
TooFewPoints(historical_data) == Len(historical_data) < 2

\* the flat line through the sum of the counts
FlatLineThroughSum(sum_y, n) == <<FromInt(0), FromInt(sum_y)>>

\* pandas_agent.py:308  return 0.0, sum_y / n if n > 0 else 0.0
FlatLine(sum_y, n) == <<FromInt(0), IF n > 0 THEN Rat(sum_y, n) ELSE FromInt(0)>>

\* pandas_agent.py:274-316; the result is the (slope, intercept) pair or the
\* ValueError raised
_calculate_linear_trend(historical_data) ==
    IF TooFewPoints(historical_data)
    THEN [raised |-> TRUE, type |-> "ValueError",
          detail |-> "Need at least 2 data points to calculate trend"]
    ELSE
      LET first == historical_data[1]
          x_values == [i \in 1..Len(historical_data) |-> MonthsDiff(historical_data[i], first)]
          y_values == [i \in 1..Len(historical_data) |-> historical_data[i][3]]
          n == Len(x_values)
          sum_x == SumSeq(x_values)
          sum_y == SumSeq(y_values)
          sum_xy == SumSeq([i \in 1..n |-> x_values[i] * y_values[i]])
          sum_x_squared == SumSeq([i \in 1..n |-> x_values[i] * x_values[i]])
          denominator == n * sum_x_squared - sum_x * sum_x
      IN  IF denominator = 0
          THEN [raised |-> FALSE, slope |-> FlatLine(sum_y, n)[1],
                intercept |-> FlatLine(sum_y, n)[2]]
          ELSE LET slope == Rat(n * sum_xy - sum_x * sum_y, denominator)
                   intercept == RDivInt(RSub(FromInt(sum_y), RMul(slope, FromInt(sum_x))), n)
               IN  [raised |-> FALSE, slope |-> slope, intercept |-> intercept]

\* range(1, 13): the number of months predicted
ForecastMonths == 12

\* the month number advanced without the rollover into the next year
AdvanceMonthNoRollover(year, month, i) == <<year, month + i>>

\* the calendar month i months after (year, month), advanced one month at a time
RECURSIVE AdvanceMonth(_, _, _)
AdvanceMonth(year, month, i) ==
    IF i = 0 THEN <<year, month>>
    ELSE IF month + 1 > 12 THEN AdvanceMonth(year + 1, 1, i - 1)
    ELSE AdvanceMonth(year, month + 1, i - 1)

\* pandas_agent.py:319-371; the result is the list of predictions or the
\* ValueError raised
_predict_future_subscriptions(historical_data, slope, intercept) ==
    IF Len(historical_data) = 0
    THEN [raised |-> TRUE, type |-> "ValueError",
          detail |-> "Need historical data to make predictions"]
    ELSE
      LET last == historical_data[Len(historical_data)]
          first == historical_data[1]
          last_month_index == MonthsDiff(last, first)
      IN  [raised |-> FALSE,
           predictions |->
             [i \in 1..ForecastMonths |->
                LET future_month_index == last_month_index + i
                    predicted_count ==
                        RMax0(RAdd(RMul(slope, FromInt(future_month_index)), intercept))
                    ym == AdvanceMonth(last[1], last[2], i)
                IN  <<ym[1], ym[2], predicted_count>>]]

month_names ==
    <<"Jan", "Feb", "Mar", "Apr", "May", "Jun", "Jul", "Aug", "Sep", "Oct", "Nov", "Dec">>

\* slope > 0.1 / slope < -0.1 / otherwise
TrendDirection(slope) ==
    IF RLess(<<1, 10>>, slope) THEN "Increasing"
    ELSE IF RLess(slope, <<-1, 10>>) THEN "Decreasing"
    ELSE "Stable"

\* pandas_agent.py:374-431; the report is kept as its figures: the total, the
\* average per month, the trend label and the monthly lines, as printed
_format_prediction_response(historical_data, predictions, slope) ==
    IF Len(predictions) = 0
    THEN [kind |-> "no_predictions"]
    ELSE
      LET total_predicted == RSumSeq([i \in 1..Len(predictions) |-> predictions[i][3]])
          avg_per_month == RDivInt(total_predicted, Len(predictions))
      IN  [kind |-> "report",
           total |-> Round0(total_predicted),
           average |-> Round0(avg_per_month),
           trend |-> TrendDirection(slope),
           breakdown |-> [i \in 1..Len(predictions) |->
                            <<month_names[predictions[i][2]], predictions[i][1],
                              Round0(predictions[i][3])>>]]

(* ------------------- the data store's monthly history ------------------ *)

\* the longest history the subscriptions table holds
MaxMonths == 7

\* the first month with a subscription
FirstMonth == <<2023, 9>>

\* the month offsets of the first n groups: consecutive, or with two months
\* without any subscription after the third
Offset(i, gap) == IF gap /\ i > 3 THEN i + 1 ELSE i - 1

\* COUNT(*) of a group, at least 1
CountAt(x, shape) ==
    CASE shape = "rising" -> 10 + 5 * x
      [] shape = "falling" -> IF 60 - 9 * x < 1 THEN 1 ELSE 60 - 9 * x
      [] shape = "uneven" -> 20 + ((x * x) % 7)
      [] OTHER -> 20

\* rows of GROUP BY year, month ORDER BY year, month
History(n, shape, gap) ==
    [i \in 1..n |->
        LET ym == AdvanceMonth(FirstMonth[1], FirstMonth[2], Offset(i, gap))
        IN  <<ym[1], ym[2], CountAt(Offset(i, gap), shape)>>]

Histories ==
    {History(n, shape, gap) :
        n \in 0..MaxMonths, shape \in {"rising", "falling", "uneven", "flat"}, gap \in BOOLEAN}

(* ----------------- pandas_agent.py: SQL text functions ---------------- *)

\* the backquote character (it cannot be written in a string here)
BQ == "BQ"

\* the code fence marker of three backquotes, <fence> below
Fence == <<BQ, BQ, BQ>>

\* s has k at position i (k in lower case, compared ignoring case)
HasAt(s, i, k) ==
    /\ i + Len(k) - 1 <= Len(s)
    /\ \A j \in 1..Len(k) : LowerChar(s[i + j - 1]) = k[j]

\* '^' under re.MULTILINE: the start of the text or just after a newline
AtLineStart(s, i) == i = 1 \/ s[i - 1] = "\n"

\* the first position from i on that holds no whitespace (Len(s) + 1 if none)
RECURSIVE SkipSpace(_, _)
SkipSpace(s, i) ==
    IF i <= Len(s) /\ s[i] \in Whitespace THEN SkipSpace(s, i + 1) ELSE i

\* the text with the fence markers at line starts left in place
StripFenceOpenKept(s, i) == s

\* re.sub(r'^<fence>(?:sql)?\s*', '', s, flags=IGNORECASE | MULTILINE), from i on
RECURSIVE StripFenceOpen(_, _)
StripFenceOpen(s, i) ==
    IF i > Len(s) THEN <<>>
    ELSE IF AtLineStart(s, i) /\ HasAt(s, i, Fence)
    THEN LET j == IF HasAt(s, i + 3, <<"s","q","l">>) THEN i + 6 ELSE i + 3
         IN  StripFenceOpen(s, SkipSpace(s, j))
    ELSE <<s[i]>> \o StripFenceOpen(s, i + 1)

\* where a match of r'<fence>\s*$' (MULTILINE) that starts at i ends: after the
\* whole run of whitespace when it reaches the end of the text, otherwise
\* before the last newline of the run; 0 when there is no match at i
FenceCloseEnd(s, i) ==
    IF ~HasAt(s, i, Fence) THEN 0
    ELSE LET p == SkipSpace(s, i + 3)
             newlines == {q \in (i + 3)..(p - 1) : s[q] = "\n"}
         IN  IF p = Len(s) + 1 THEN p
             ELSE IF newlines = {} THEN 0
             ELSE CHOOSE q \in newlines : \A r \in newlines : r <= q

\* re.sub(r'<fence>\s*$', '', s, flags=IGNORECASE | MULTILINE), from i on
RECURSIVE StripFenceClose(_, _)
StripFenceClose(s, i) ==
    IF i > Len(s) THEN <<>>
    ELSE LET e == FenceCloseEnd(s, i)
         IN  IF e # 0 THEN StripFenceClose(s, e)
             ELSE <<s[i]>> \o StripFenceClose(s, i + 1)

\* re.sub(r'^(?:sql|query):\s*', '', s, flags=IGNORECASE | MULTILINE), from i on
RECURSIVE StripSqlPrefix(_, _)
StripSqlPrefix(s, i) ==
    IF i > Len(s) THEN <<>>
    ELSE IF AtLineStart(s, i) /\ HasAt(s, i, <<"s","q","l",":">>)
    THEN StripSqlPrefix(s, SkipSpace(s, i + 4))
    ELSE IF AtLineStart(s, i) /\ HasAt(s, i, <<"q","u","e","r","y",":">>)
    THEN StripSqlPrefix(s, SkipSpace(s, i + 6))
    ELSE <<s[i]>> \o StripSqlPrefix(s, i + 1)

\* pandas_agent.py:601-613; None is the empty sequence
_extract_sql_from_message(text) ==
    Strip(StripSqlPrefix(StripFenceClose(StripFenceOpen(text, 1), 1), 1))

dangerous_keywords ==
    { <<"D","R","O","P">>,
      <<"D","E","L","E","T","E">>,
      <<"I","N","S","E","R","T">>,
      <<"U","P","D","A","T","E">>,
      <<"A","L","T","E","R">>,
      <<"C","R","E","A","T","E">>,
      <<"T","R","U","N","C","A","T","E">>,
      <<"G","R","A","N","T">>,
      <<"R","E","V","O","K","E">>,
      <<"E","X","E","C">>,
      <<"E","X","E","C","U","T","E">> }

safe_prefixes ==
    { <<"S","E","L","E","C","T">>,
      <<"W","I","T","H">>,
      <<"E","X","P","L","A","I","N">>,
      <<"D","E","S","C","R","I","B","E">>,
      <<"S","H","O","W">> }

\* the test without the scan for dangerous keywords
_is_safe_sql_query_prefix_only(sql) == FirstWord(Upper(Strip(sql))) \in safe_prefixes

\* pandas_agent.py:577-598
_is_safe_sql_query(sql) ==
    LET sql_upper == Upper(Strip(sql))
    IN  IF HasAny(sql_upper, dangerous_keywords) THEN FALSE
        ELSE FirstWord(sql_upper) \in safe_prefixes

Statements ==
    { <<"S","E","L","E","C","T"," ","*"," ","F","R","O","M"," ","u","s","e","r","s">>,
      <<"s","e","l","e","c","t"," ","1">>,
      <<"D","R","O","P"," ","T","A","B","L","E"," ","u","s","e","r","s">>,
      <<"D","E","L","E","T","E"," ","F","R","O","M"," ","u","s","e","r","s">>,
      <<"I","N","S","E","R","T"," ","I","N","T","O"," ","u","s","e","r","s"," ","V","A","L","U","E","S"," ","(","1",")">>,
      <<"U","p","d","a","t","e"," ","u","s","e","r","s"," ","S","E","T"," ","a"," ","="," ","1">>,
      <<"S","E","L","E","C","T"," ","c","r","e","a","t","e","d","_","a","t"," ","F","R","O","M"," ","u","s","e","r","s">>,
      <<"S","E","L","E","C","T"," ","1",";"," ","d","r","o","p"," ","t","a","b","l","e"," ","u","s","e","r","s">>,
      <<"W","I","T","H"," ","t"," ","A","S"," ","(","S","E","L","E","C","T"," ","1",")"," ","S","E","L","E","C","T"," ","*"," ","F","R","O","M"," ","t">>,
      <<"s","h","o","w"," ","t","a","b","l","e","s">>,
      <<"E","X","P","L","A","I","N"," ","S","E","L","E","C","T"," ","1">>,
      <<"d","e","s","c","r","i","b","e"," ","u","s","e","r","s">>,
      <<"T","h","i","s"," ","i","s"," ","n","o","t"," ","S","Q","L">>,
      <<"s","e","l","e","c","t","e","d"," ","r","o","w","s">>,
      <<"(","S","E","L","E","C","T"," ","1",")">>,
      <<"\t","S","e","l","e","c","t","\n","1">>,
      <<"S","E","L","E","C","T"," ","f","(","\n","q","u","e","r","y",":","="," ","1",")">>,
      <<>>,
      <<" ">> }

Prefixes ==
    { <<>>,
      <<"s","q","l",":"," ">>,
      <<"Q","u","e","r","y",":">>,
      <<BQ,BQ,BQ,"s","q","l","\n">>,
      <<BQ,BQ,BQ,"\n">>,
      <<" ">> }

Suffixes ==
    { <<>>,
      <<"\n",BQ,BQ,BQ>>,
      <<BQ,BQ,BQ,"\n">> }

\* the arguments of run_sql_query: a statement, bare or wrapped
SqlTexts == {p \o q \o x : p \in Prefixes, q \in Statements, x \in Suffixes}

(* ---------------- pandasai_service.py: the LLM helpers ---------------- *)

\* what smart_df.chat() does: an answer, a string of blanks, an empty answer,
\* or an exception
ChatOutcomes == {"text", "blank", "empty", "raise"}

\* pandasai_service.py:287-318; api_key: OPENAI_API_KEY or LLM_API_KEY is set
\* (_initialize_pandasai raises ValueError without it, inside the try)
analyze_with_llm(key, chat) ==
    IF ~key THEN "Based on the data: <context>, the analysis shows relevant patterns and trends."
    ELSE CASE chat = "text" -> "<llm analysis>"
           [] chat = "blank" -> "  "
           [] chat = "empty" -> ""
           [] OTHER -> "Based on the data: <context>, the analysis shows relevant patterns and trends."

\* pandasai_service.py:237-275
explain_with_llm(key, chat) ==
    IF ~key THEN "Analysis: <context>. <summary>"
    ELSE CASE chat = "text" -> "<llm explanation>"
           [] chat = "blank" -> "  "
           [] chat = "empty" -> ""
           [] OTHER -> "Analysis: <context>. <summary>"

\* pandasai_service.py:272-275, 316-318  the except clause of the helper runs
\* when _initialize_pandasai() or smart_df.chat() raised; it is recorded in
\* the call log after the helper's name
LlmExceptClause(name, key, chat) ==
    IF ~key \/ chat = "raise" THEN <<name \o ".except">> ELSE <<>>

\* insight and insight.strip()
HasContent(insight) == insight \notin {"", "  "}

(* ------------------ pandas_agent.py: result formatting ----------------- *)

\* max_rows: int = 100
DefaultMaxRows == 100

\* pandas_agent.py:616-651 on a result of n rows; the table is kept as the
\* number of data rows shown and the figures printed around them
_format_sql_results(n, max_rows) ==
    IF n = 0 THEN [kind |-> "no_rows"]
    ELSE
      LET truncated == n > max_rows
          len_rows == IF truncated THEN max_rows ELSE n
      IN  [kind |-> "table",
           warning |-> IF truncated THEN <<"Showing first", max_rows, "of", len_rows>>
                       ELSE <<>>,
           shown |-> len_rows,
           more |-> IF len_rows = max_rows THEN <<"and", len_rows - max_rows, "more rows">>
                    ELSE <<>>,
           total |-> len_rows]

\* the sizes of the results the data store returns for a statement
RowCounts == {0, 1, 100, 101}

(* ------------------- pandas_agent.py: SQL generation ------------------- *)

\* pandas_agent.py:849-854
EU_COUNTRIES ==
    <<"Austria", "Belgium", "Bulgaria", "Croatia", "Cyprus", "Czech Republic",
      "Denmark", "Estonia", "Finland", "France", "Germany", "Greece", "Hungary",
      "Ireland", "Italy", "Latvia", "Lithuania", "Luxembourg", "Malta",
      "Netherlands", "Poland", "Portugal", "Romania", "Slovakia", "Slovenia",
      "Spain", "Sweden">>

\* ", ".join(...) on strings
RECURSIVE JoinStrings(_, _)
JoinStrings(strs, sep) ==
    IF Len(strs) = 0 THEN ""
    ELSE IF Len(strs) = 1 THEN strs[1]
    ELSE strs[1] \o sep \o JoinStrings(Tail(strs), sep)

\* the keys of the filters dictionary, in the order the code inserts them;
\* a key that is missing has the value "None", as filters.get(key) gives
FilterKeys == <<"region", "status", "date_range", "group_by">>

\* pandas_agent.py:858-894
_detect_filters_from_text(text, dataset) ==
    LET lower == Lower(text)
    IN  [region |->
            IF Contains(lower, <<"e","u">>) \/ Contains(lower, <<"e","u","r","o","p","e">>) \/ Contains(lower, <<"e","u","r","o","p","e","a","n">>)
            THEN "EU"
            ELSE IF Contains(lower, <<"u","s">>) \/ Contains(lower, <<"u","s","a">>) \/ Contains(lower, <<"u","n","i","t","e","d"," ","s","t","a","t","e","s">>)
            THEN "US" ELSE "None",
         status |->
            IF Contains(lower, <<"a","c","t","i","v","e">>) THEN "active"
            ELSE IF Contains(lower, <<"c","h","u","r","n","e","d">>) \/ Contains(lower, <<"c","a","n","c","e","l","e","d">>) \/ Contains(lower, <<"c","a","n","c","e","l","l","e","d">>)
            THEN "churned" ELSE "None",
         date_range |->
            IF Contains(lower, <<"l","a","s","t"," ","m","o","n","t","h">>) \/ Contains(lower, <<"p","a","s","t"," ","m","o","n","t","h">>)
            THEN "last_month"
            ELSE IF Contains(lower, <<"l","a","s","t"," ","q","u","a","r","t","e","r">>) \/ Contains(lower, <<"p","a","s","t"," ","q","u","a","r","t","e","r">>)
            THEN "last_quarter"
            ELSE IF Contains(lower, <<"l","a","s","t"," ","y","e","a","r">>) \/ Contains(lower, <<"p","a","s","t"," ","y","e","a","r">>)
            THEN "last_year" ELSE "None",
         group_by |->
            IF Contains(lower, <<"b","y"," ","p","l","a","n">>) \/ Contains(lower, <<"g","r","o","u","p"," ","b","y"," ","p","l","a","n">>)
            THEN "plan"
            ELSE IF Contains(lower, <<"b","y"," ","c","o","u","n","t","r","y">>) \/ Contains(lower, <<"g","r","o","u","p"," ","b","y"," ","c","o","u","n","t","r","y">>)
            THEN "country" ELSE "None"]

\* " AND ".join(where_conditions), each condition a list of tokens
RECURSIVE JoinConditions(_)
JoinConditions(conds) ==
    IF Len(conds) = 0 THEN <<>>
    ELSE IF Len(conds) = 1 THEN conds[1]
    ELSE conds[1] \o <<"AND">> \o JoinConditions(Tail(conds))

\* pandas_agent.py:903-918  the lines of the select list; a line is the list
\* of its tokens
SelectList(filters) ==
    IF filters.group_by = "plan"
    THEN << <<"plan", ",">>, <<"COUNT(*)", "AS", "subscription_count">> >>
    ELSE IF filters.group_by = "country"
    THEN << <<"u.country", ",">>, <<"COUNT(*)", "AS", "subscription_count">> >>
    ELSE << <<"s.subscription_id", ",">>, <<"s.plan", ",">>, <<"s.start_date", ",">>,
            <<"s.end_date", ",">>, <<"s.status", ",">> >>
         \o (IF filters.region # "None" THEN << <<"u.country">> >> ELSE <<>>)

\* pandas_agent.py:930-933  the region filter: a condition for the EU only
RegionConditions(filters) ==
    IF filters.region = "EU"
    THEN << <<"u.country", "IN", "(" \o JoinStrings([i \in 1..Len(EU_COUNTRIES) |->
                 "'" \o EU_COUNTRIES[i] \o "'"], ", ") \o ")">> >>
    ELSE <<>>

\* pandas_agent.py:897-968  the statement as its lines, each line the list of
\* its tokens; the ";" is appended to the last line
_generate_subscriptions_sql(text, filters) ==
    LET from_clause ==
            IF filters.region # "None" \/ filters.group_by = "country"
            THEN << <<"FROM", "subscriptions", "s">>,
                    <<"INNER", "JOIN", "users", "u", "ON", "s.user_id", "=", "u.user_id">> >>
            ELSE << <<"FROM", "subscriptions", "s">> >>
        where_conditions ==
            RegionConditions(filters)
            \o (IF filters.status = "active"
                THEN << <<"(", "s.end_date", "IS", "NULL", "OR", "s.end_date", ">", "CURRENT_DATE", ")">> >>
                ELSE IF filters.status = "churned"
                THEN << <<"s.end_date", "IS", "NOT", "NULL", "AND", "s.end_date", "<=", "CURRENT_DATE">> >>
                ELSE <<>>)
            \o (IF filters.date_range = "last_month"
                THEN << <<"s.start_date", ">=", "CURRENT_DATE", "-", "INTERVAL", "'30 days'">> >>
                ELSE IF filters.date_range = "last_quarter"
                THEN << <<"s.start_date", ">=", "CURRENT_DATE", "-", "INTERVAL", "'90 days'">> >>
                ELSE IF filters.date_range = "last_year"
                THEN << <<"s.start_date", ">=", "CURRENT_DATE", "-", "INTERVAL", "'365 days'">> >>
                ELSE <<>>)
        where_clause ==
            IF where_conditions # <<>>
            THEN << <<"WHERE">> \o JoinConditions(where_conditions) >> ELSE <<>>
        group_by_clause ==
            IF filters.group_by = "plan" THEN << <<"GROUP", "BY", "plan">> >>
            ELSE IF filters.group_by = "country" THEN << <<"GROUP", "BY", "u.country">> >>
            ELSE <<>>
        order_by_clause ==
            IF filters.group_by # "None"
            THEN << <<"ORDER", "BY", "subscription_count", "DESC">> >>
            ELSE << <<"ORDER", "BY", "s.start_date", "DESC">> >>
        limit_clause ==
            IF filters.group_by = "None" THEN << <<"LIMIT", "100">> >> ELSE <<>>
        sql_parts == << <<"SELECT">> >> \o SelectList(filters) \o from_clause \o where_clause
                         \o group_by_clause \o order_by_clause \o limit_clause
    IN  [i \in 1..Len(sql_parts) |->
            IF i = Len(sql_parts) THEN sql_parts[i] \o <<";">> ELSE sql_parts[i]]

\* pandas_agent.py:971-1032  the response: the request quoted, the statement
\* in its fence, and under 'Applied filters' one (key, value) line for every
\* key of the filters dictionary
generate_sql_query(text, dataset) ==
    IF dataset = "none" THEN [kind |-> "no_table"]
    ELSE
      LET filters == _detect_filters_from_text(text, dataset)
          sql == IF dataset = "subscriptions" THEN _generate_subscriptions_sql(text, filters)
                 ELSE << <<"SELECT", "*", "FROM", dataset, "LIMIT", "100", ";">> >>
          present == SelectSeq(FilterKeys, LAMBDA k : filters[k] # "None")
      IN  [kind |-> "generated_sql", request |-> text, sql |-> sql,
           applied |-> [i \in 1..Len(present) |-> <<present[i], filters[present[i]]>>]]

(* ------------------------------- state --------------------------------- *)

\* request handlers running concurrently
NumHandlers == 2

Handlers == 1..NumHandlers

\* events delivered, or operations invoked, over the whole run
MaxEvents == 2

VARIABLES
    store,      \* the data store: store.history, the rows of the monthly history query,
                \* and store.rows, the size of the result of the user's statement
    PANDASAI_AVAILABLE,  \* pandas_agent.py:13-18
    api_key,    \* OPENAI_API_KEY or LLM_API_KEY is set
    pc,         \* pc[h]: where handler h is in the code
    user,       \* user[h]: event.get("user"), "None" when absent
    text,       \* text[h]: event.get("text", ""), or the argument of a direct call
    decision,   \* decision[h]: the RouteDecision of route_message(text)
    said,       \* said[h]: the responses handler h has passed to say() for its event
    events,     \* number of events delivered so far
    open,       \* the connections to the data store that are open
    nextConn,   \* the identity of the next connection psycopg2.connect() creates
    conn,       \* conn[h]: the local variable conn, 0 when unbound
    pending,    \* pending[h]: the exception in flight while a finally clause runs
    sql,        \* sql[h]: the statement extracted by run_sql_query
    historical_data, \* historical_data[h] in run_subscription_prediction
    trend,      \* trend[h]: the (slope, intercept) pair
    predictions,     \* predictions[h]
    base_response,   \* base_response[h] / base_results[h]
    llm_insight,     \* llm_insight[h] / llm_explanation[h]
    answer,     \* answer[h]: what the run_... call returned or raised
    calls,      \* calls[h]: the functions invoked for the event, in order
    warnings,   \* warnings[h]: logging.warning() records emitted for the event
    propagated  \* propagated[h]: an exception left handle_message_events

config == <<store, PANDASAI_AVAILABLE, api_key>>

event == <<user, text, events>>

conns == <<open, nextConn, conn, pending>>

locals == <<sql, historical_data, trend, predictions, base_response, llm_insight>>

vars == <<config, pc, event, decision, said, conns, locals, answer, calls, warnings, propagated>>

NoDecision == RouteDecision("unknown", "none", "")

NoException == [type |-> "none", detail |-> ""]

Exception(t, d) == [type |-> t, detail |-> d]

\* isinstance(e, psycopg2.Error)
IsPsycopg2Error(e) == e.type \in {"psycopg2.OperationalError", "psycopg2.ProgrammingError"}

NoTrend == [slope |-> <<0, 1>>, intercept |-> <<0, 1>>]

NoValue == [kind |-> "none"]

NoAnswer == [raised |-> FALSE, value |-> NoValue]

Returns(v) == [raised |-> FALSE, value |-> v]

Raises(e) == [raised |-> TRUE, value |-> e]

Log(h, name) == calls' = [calls EXCEPT ![h] = Append(@, name)]

Goto(h, label) == pc' = [pc EXCEPT ![h] = label]

Return(h, v) == /\ answer' = [answer EXCEPT ![h] = Returns(v)]
                /\ pc' = [pc EXCEPT ![h] = "returned"]

(* --------------------- connections to the data store ------------------- *)

\* what _get_connection() does: a new connection, or the exception of a
\* missing DB_HOST, a malformed DB_PORT or a refused connection
ConnectOutcomes == {"ok", "KeyError", "ValueError", "psycopg2.OperationalError"}

ConnectError(o) ==
    CASE o = "KeyError" -> Exception("KeyError", "'DB_HOST'")
      [] o = "ValueError" -> Exception("ValueError", "invalid literal for int()")
      [] OTHER -> Exception("psycopg2.OperationalError", "connection refused")

\* pandas_agent.py:21-33  conn = _get_connection(), success
Acquire(h) ==
    /\ conn' = [conn EXCEPT ![h] = nextConn]
    /\ open' = open \cup {nextConn}
    /\ nextConn' = nextConn + 1

\* a close placed after the statements instead of in a finally clause
AfterFinallyLeaky(o, c, failed) == IF failed THEN o ELSE o \ {c}

\* the connections open once the finally clause has run on connection c;
\* failed: an exception is in flight
AfterFinally(o, c, failed) == o \ {c}

\* finally: conn.close(), and conn goes out of scope
Release(h) ==
    /\ open' = AfterFinally(open, conn[h], pending[h].type # "none")
    /\ conn' = [conn EXCEPT ![h] = 0]
    /\ pending' = [pending EXCEPT ![h] = NoException]
    /\ UNCHANGED nextConn

(* ------------------------- main.py: the handler ------------------------ *)

\* the events delivered: a user's message, a message without user (a bot or
\* system message), and a message without text
Events ==
    {[user |-> "U1", text |-> m] : m \in Messages}
        \cup {[user |-> "None", text |-> <<"x","y","z">>], [user |-> "U1", text |-> <<>>]}

\* a test of the user alone
IsIgnoredUserOnly(e) == e.user = "None"

\* main.py:43  if user is None or not text
IsIgnored(e) == e.user = "None" \/ e.text = <<>>

\* main.py:36-44  the event arrives; bot/system and empty messages are ignored
HandleEvent(h) ==
    /\ pc[h] = "idle"
    /\ events < MaxEvents
    /\ \E e \in Events :
         /\ user' = [user EXCEPT ![h] = e.user]
         /\ text' = [text EXCEPT ![h] = e.text]
         /\ pc' = [pc EXCEPT ![h] = IF IsIgnored(e) THEN "done" ELSE "route"]
    /\ events' = events + 1
    /\ UNCHANGED <<config, decision, said, conns, locals, answer, calls, warnings, propagated>>

\* core/app.py:19-28  the basic handler of the other Slack app of the
\* repository: it ignores an event without user and echoes every other one,
\* an empty text included
AppHandleMessageEvents(h) ==
    /\ pc[h] = "idle"
    /\ events < MaxEvents
    /\ \E e \in Events :
         /\ user' = [user EXCEPT ![h] = e.user]
         /\ text' = [text EXCEPT ![h] = e.text]
         /\ said' = [said EXCEPT ![h] =
                       IF e.user = "None" THEN @
                       ELSE Append(@, [kind |-> "echo", text |-> e.text])]
    /\ Goto(h, "done")
    /\ events' = events + 1
    /\ UNCHANGED <<config, decision, conns, locals, answer, calls, warnings, propagated>>

\* main.py:46  decision = route_message(text)
Route(h) ==
    /\ pc[h] = "route"
    /\ decision' = [decision EXCEPT ![h] = route_message(text[h])]
    /\ Goto(h, "dispatch")
    /\ UNCHANGED <<config, event, said, conns, locals, answer, calls, warnings, propagated>>

\* the entry point of the collaborator main.py calls for an intent
EntryPoint(intent) ==
    CASE intent = "data_question" -> "dq_entry"
      [] intent = "prediction" -> "pred_connect"
      [] intent = "sql_query" -> "sql_extract"
      [] intent = "list_queries" -> "list_queries"
      [] intent = "generate_sql" -> "generate_sql"
      [] OTHER -> "none"

\* the run_... function main.py calls for an intent
Collaborator(intent) ==
    CASE intent = "data_question" -> "run_data_question"
      [] intent = "prediction" -> "run_subscription_prediction"
      [] intent = "sql_query" -> "run_sql_query"
      [] intent = "list_queries" -> "list_golden_queries"
      [] intent = "generate_sql" -> "generate_sql_query"
      [] OTHER -> "none"

\* the two arguments of generate_sql_query passed the other way round
ArgumentsDatasetFirst(intent, dataset) ==
    CASE intent = "data_question" -> <<"dataset_name=" \o dataset, "question=text">>
      [] intent = "prediction" -> <<"question=text">>
      [] intent = "sql_query" -> <<"sql_text=text">>
      [] intent = "generate_sql" -> <<"text=" \o dataset, "dataset=text">>
      [] OTHER -> <<>>

\* main.py:70, 86, 97, 108, 119  the arguments of the call, each bound to the
\* parameter of its position in the callee's signature (pandas_agent.py:434,
\* 532, 654, 795, 971); "text" stands for the text of the event
Arguments(intent, dataset) ==
    CASE intent = "data_question" -> <<"dataset_name=" \o dataset, "question=text">>
      [] intent = "prediction" -> <<"question=text">>
      [] intent = "sql_query" -> <<"sql_text=text">>
      [] intent = "generate_sql" -> <<"text=text", "dataset=" \o dataset>>
      [] OTHER -> <<>>

\* main.py:48-66, 128-132  help and the fallback send a static text
SayStatic(h) ==
    /\ pc[h] = "dispatch"
    /\ EntryPoint(decision[h].intent) = "none"
    /\ said' = [said EXCEPT ![h] =
                  Append(@, [kind |-> IF decision[h].intent = "help" THEN "help_text"
                                      ELSE "fallback_text"])]
    /\ Goto(h, "done")
    /\ UNCHANGED <<config, event, decision, conns, locals, answer, calls, warnings, propagated>>

\* main.py:68-70, 84-86, 95-97, 106-108, 117-119  the branch of the intent
\* calls its collaborator
Dispatch(h) ==
    /\ pc[h] = "dispatch"
    /\ EntryPoint(decision[h].intent) # "none"
    /\ calls' = [calls EXCEPT ![h] =
          @ \o <<Collaborator(decision[h].intent)>>
            \o Arguments(decision[h].intent, decision[h].dataset)]
    /\ Goto(h, EntryPoint(decision[h].intent))
    /\ UNCHANGED <<config, event, decision, said, conns, locals, answer, warnings, propagated>>

\* an except clause for ValueError alone
HandlerCatchesValueErrorOnly(e) == e.type = "ValueError"

\* except Exception as e:
HandlerCatches(e) == TRUE

\* main.py:71-82, 87-93, 98-104, 109-115, 120-126  say(answer), or the
\* apology of the except clause
SayAnswer(h) ==
    /\ pc[h] = "returned"
    /\ IF ~answer[h].raised
       THEN /\ said' = [said EXCEPT ![h] =
                  Append(@, [kind |-> "answer",
                             header |-> IF decision[h].intent = "data_question"
                                        THEN decision[h].dataset
                                        ELSE IF decision[h].intent = "prediction"
                                        THEN "Subscription Prediction" ELSE "none",
                             body |-> answer[h].value])]
            /\ UNCHANGED propagated
       ELSE IF HandlerCatches(answer[h].value)
       THEN /\ said' = [said EXCEPT ![h] =
                  Append(@, [kind |-> "apology", intent |-> decision[h].intent,
                             detail |-> answer[h].value.detail])]
            /\ UNCHANGED propagated
       ELSE /\ propagated' = [propagated EXCEPT ![h] = TRUE]
            /\ UNCHANGED said
    /\ Goto(h, "done")
    /\ UNCHANGED <<config, event, decision, conns, locals, answer, calls, warnings>>

\* handle_message_events returns; its locals are gone
Finish(h) ==
    /\ pc[h] = "done"
    /\ pc' = [pc EXCEPT ![h] = "idle"]
    /\ user' = [user EXCEPT ![h] = "None"]
    /\ text' = [text EXCEPT ![h] = <<>>]
    /\ decision' = [decision EXCEPT ![h] = NoDecision]
    /\ said' = [said EXCEPT ![h] = <<>>]
    /\ sql' = [sql EXCEPT ![h] = <<>>]
    /\ historical_data' = [historical_data EXCEPT ![h] = <<>>]
    /\ trend' = [trend EXCEPT ![h] = NoTrend]
    /\ predictions' = [predictions EXCEPT ![h] = <<>>]
    /\ base_response' = [base_response EXCEPT ![h] = NoValue]
    /\ llm_insight' = [llm_insight EXCEPT ![h] = ""]
    /\ answer' = [answer EXCEPT ![h] = NoAnswer]
    /\ calls' = [calls EXCEPT ![h] = <<>>]
    /\ warnings' = [warnings EXCEPT ![h] = 0]
    /\ propagated' = [propagated EXCEPT ![h] = FALSE]
    /\ UNCHANGED <<config, events, conns>>

(* ------------ pandas_agent.py: run_subscription_prediction ------------- *)

\* len(historical_data) < 6
MinHistoryMonths == 6

\* no test of the length at all
HasEnoughHistoryAlways(historical) == TRUE

\* the test with a threshold of one month
HasEnoughHistoryNonEmpty(historical) == Len(historical) >= 1

\* pandas_agent.py:456
HasEnoughHistory(historical) == ~(Len(historical) < MinHistoryMonths)

\* pandas_agent.py:517-529  the except clauses of run_subscription_prediction
PredictionError(e) ==
    IF e.type = "ValueError"
    THEN [kind |-> "prediction_value_error", detail |-> e.detail]
    ELSE [kind |-> "prediction_error", detail |-> e.detail]

\* pandas_agent.py:253  conn = _get_connection() in
\* _get_historical_new_subscriptions
PredConnect(h) ==
    /\ pc[h] = "pred_connect"
    /\ \E o \in ConnectOutcomes :
         IF o = "ok"
         THEN /\ Acquire(h)
              /\ Goto(h, "pred_execute")
              /\ UNCHANGED answer
         ELSE /\ Return(h, PredictionError(ConnectError(o)))
              /\ UNCHANGED <<open, nextConn, conn>>
    /\ Log(h, "_get_historical_new_subscriptions")
    /\ UNCHANGED <<config, event, decision, said, pending, locals, warnings, propagated>>

\* pandas_agent.py:255-269  the monthly counts are read, or the query fails
PredExecute(h) ==
    /\ pc[h] = "pred_execute"
    /\ \E ok \in BOOLEAN :
         IF ok
         THEN /\ historical_data' = [historical_data EXCEPT ![h] = store.history]
              /\ UNCHANGED pending
         ELSE /\ pending' = [pending EXCEPT ![h] =
                    Exception("psycopg2.ProgrammingError", "relation does not exist")]
              /\ UNCHANGED historical_data
    /\ Goto(h, "pred_close")
    /\ UNCHANGED <<config, event, decision, said, open, nextConn, conn, sql, trend,
                   predictions, base_response, llm_insight, answer, calls, warnings,
                   propagated>>

\* the fetch returning with its connection left open
PredCloseLate(h) ==
    /\ pc[h] = "pred_close"
    /\ pending' = [pending EXCEPT ![h] = NoException]
    /\ IF pending[h].type # "none"
       THEN Return(h, PredictionError(pending[h]))
       ELSE Goto(h, "pred_check") /\ UNCHANGED answer
    /\ UNCHANGED <<config, event, decision, said, open, nextConn, conn, locals, calls,
                   warnings, propagated>>

\* pandas_agent.py:270-271  finally: conn.close(); then the rows are returned
\* or the exception reaches the except clause of run_subscription_prediction
PredClose(h) ==
    /\ pc[h] = "pred_close"
    /\ Release(h)
    /\ IF pending[h].type # "none"
       THEN Return(h, PredictionError(pending[h]))
       ELSE Goto(h, "pred_check") /\ UNCHANGED answer
    /\ UNCHANGED <<config, event, decision, said, locals, calls, warnings, propagated>>

\* pandas_agent.py:455-463
PredCheck(h) ==
    /\ pc[h] = "pred_check"
    /\ IF HasEnoughHistory(historical_data[h])
       THEN Goto(h, "pred_trend") /\ UNCHANGED answer
       ELSE Return(h, [kind |-> "insufficient_data", months |-> Len(historical_data[h])])
    /\ UNCHANGED <<config, event, decision, said, conns, locals, calls, warnings, propagated>>

\* pandas_agent.py:466  slope, intercept = _calculate_linear_trend(historical_data)
PredTrend(h) ==
    /\ pc[h] = "pred_trend"
    /\ LET r == _calculate_linear_trend(historical_data[h])
       IN  IF r.raised
           THEN /\ Return(h, PredictionError(Exception(r.type, r.detail)))
                /\ UNCHANGED trend
           ELSE /\ trend' = [trend EXCEPT ![h] = [slope |-> r.slope, intercept |-> r.intercept]]
                /\ Goto(h, "pred_forecast")
                /\ UNCHANGED answer
    /\ Log(h, "_calculate_linear_trend")
    /\ UNCHANGED <<config, event, decision, said, conns, sql, historical_data, predictions,
                   base_response, llm_insight, warnings, propagated>>

\* pandas_agent.py:469  predictions = _predict_future_subscriptions(...)
PredForecast(h) ==
    /\ pc[h] = "pred_forecast"
    /\ LET r == _predict_future_subscriptions(historical_data[h], trend[h].slope,
                                              trend[h].intercept)
       IN  IF r.raised
           THEN /\ Return(h, PredictionError(Exception(r.type, r.detail)))
                /\ UNCHANGED predictions
           ELSE /\ predictions' = [predictions EXCEPT ![h] = r.predictions]
                /\ Goto(h, "pred_format")
                /\ UNCHANGED answer
    /\ Log(h, "_predict_future_subscriptions")
    /\ UNCHANGED <<config, event, decision, said, conns, sql, historical_data, trend,
                   base_response, llm_insight, warnings, propagated>>

\* pandas_agent.py:472  base_response = _format_prediction_response(...)
PredFormat(h) ==
    /\ pc[h] = "pred_format"
    /\ base_response' = [base_response EXCEPT ![h] =
          _format_prediction_response(historical_data[h], predictions[h], trend[h].slope)]
    /\ Goto(h, "pred_insight")
    /\ UNCHANGED <<config, event, decision, said, conns, sql, historical_data, trend,
                   predictions, llm_insight, answer, calls, warnings, propagated>>

\* pandas_agent.py:474-498  llm_insight = analyze_with_llm(...) when PandasAI
\* is available
PredInsight(h) ==
    /\ pc[h] = "pred_insight"
    /\ IF PANDASAI_AVAILABLE
       THEN \E chat \in ChatOutcomes :
              /\ llm_insight' = [llm_insight EXCEPT ![h] = analyze_with_llm(api_key, chat)]
              /\ calls' = [calls EXCEPT ![h] =
                    @ \o <<"analyze_with_llm">> \o LlmExceptClause("analyze_with_llm", api_key, chat)]
       ELSE UNCHANGED <<llm_insight, calls>>
    /\ Goto(h, "pred_return")
    /\ UNCHANGED <<config, event, decision, said, conns, sql, historical_data, trend,
                   predictions, base_response, answer, warnings, propagated>>

\* a response that depends on the insight being there
PredictionResponseDropsReport(report, insight) ==
    IF HasContent(insight)
    THEN [kind |-> "prediction", report |-> report, insight |-> insight]
    ELSE [kind |-> "prediction_error", detail |-> "no insight"]

\* pandas_agent.py:500-515  the report, and the insight section when there is
\* an insight
PredictionResponse(report, insight) ==
    [kind |-> "prediction", report |-> report,
     insight |-> IF HasContent(insight) THEN insight ELSE ""]

PredReturn(h) ==
    /\ pc[h] = "pred_return"
    /\ Return(h, PredictionResponse(base_response[h], llm_insight[h]))
    /\ UNCHANGED <<config, event, decision, said, conns, locals, calls, warnings, propagated>>

(* -------------------- pandas_agent.py: run_sql_query ------------------- *)

\* pandas_agent.py:743-755  the except clauses of run_sql_query
SqlError(e) ==
    IF IsPsycopg2Error(e)
    THEN [kind |-> "database_error", detail |-> e.detail]
    ELSE [kind |-> "sql_error", detail |-> e.detail]

\* pandas_agent.py:668-676
SqlExtract(h) ==
    /\ pc[h] = "sql_extract"
    /\ LET q == _extract_sql_from_message(text[h])
       IN  /\ sql' = [sql EXCEPT ![h] = q]
           /\ IF q = <<>>
              THEN Return(h, [kind |-> "no_sql"])
              ELSE Goto(h, "sql_validate") /\ UNCHANGED answer
    /\ Log(h, "_extract_sql_from_message")
    /\ UNCHANGED <<config, event, decision, said, conns, historical_data, trend, predictions,
                   base_response, llm_insight, warnings, propagated>>

\* pandas_agent.py:678-685
SqlValidate(h) ==
    /\ pc[h] = "sql_validate"
    /\ IF _is_safe_sql_query(sql[h])
       THEN Goto(h, "sql_connect") /\ UNCHANGED answer
       ELSE Return(h, [kind |-> "security_error"])
    /\ Log(h, "_is_safe_sql_query")
    /\ UNCHANGED <<config, event, decision, said, conns, locals, warnings, propagated>>

\* pandas_agent.py:688  conn = _get_connection()
SqlConnect(h) ==
    /\ pc[h] = "sql_connect"
    /\ \E o \in ConnectOutcomes :
         IF o = "ok"
         THEN /\ Acquire(h)
              /\ Goto(h, "sql_execute")
              /\ UNCHANGED answer
         ELSE /\ Return(h, SqlError(ConnectError(o)))
              /\ UNCHANGED <<open, nextConn, conn>>
    /\ Log(h, "_get_connection")
    /\ UNCHANGED <<config, event, decision, said, pending, locals, warnings, propagated>>

\* pandas_agent.py:690-698  the statement is executed and the rows formatted,
\* or the data store rejects the statement
SqlExecute(h) ==
    /\ pc[h] = "sql_execute"
    /\ \/ /\ base_response' = [base_response EXCEPT ![h] =
                                    _format_sql_results(store.rows, DefaultMaxRows)]
          /\ Goto(h, "sql_explain")
          /\ UNCHANGED pending
       \/ /\ pending' = [pending EXCEPT ![h] =
                Exception("psycopg2.ProgrammingError", "syntax error")]
          /\ Goto(h, "sql_close")
          /\ UNCHANGED base_response
    /\ Log(h, "cur.execute")
    /\ UNCHANGED <<config, event, decision, said, open, nextConn, conn, sql, historical_data,
                   trend, predictions, llm_insight, answer, warnings, propagated>>

\* pandas_agent.py:700-721  llm_explanation = explain_with_llm(...) when
\* PandasAI is available
SqlExplain(h) ==
    /\ pc[h] = "sql_explain"
    /\ IF PANDASAI_AVAILABLE
       THEN /\ \E chat \in ChatOutcomes :
                 llm_insight' = [llm_insight EXCEPT ![h] = explain_with_llm(api_key, chat)]
            /\ Log(h, "explain_with_llm")
       ELSE UNCHANGED <<llm_insight, calls>>
    /\ Goto(h, "sql_close")
    /\ UNCHANGED <<config, event, decision, said, conns, sql, historical_data, trend,
                   predictions, base_response, answer, warnings, propagated>>

\* pandas_agent.py:723-741  the response is assembled, then finally:
\* conn.close(); an exception in flight reaches the except clauses
SqlClose(h) ==
    /\ pc[h] = "sql_close"
    /\ Release(h)
    /\ IF pending[h].type # "none"
       THEN Return(h, SqlError(pending[h]))
       ELSE Return(h, [kind |-> "sql_results", results |-> base_response[h],
                       explanation |-> IF HasContent(llm_insight[h])
                                       THEN llm_insight[h] ELSE ""])
    /\ UNCHANGED <<config, event, decision, said, locals, calls, warnings, propagated>>

(* ------------------ pandas_agent.py: run_data_question ----------------- *)

\* the dataset passed on as it is
DatasetHintVerbatim(dataset_name) == dataset_name

\* pandas_agent.py:561  dataset_name if dataset_name != "none" else None
DatasetHint(dataset_name) == IF dataset_name # "none" THEN dataset_name ELSE "None"

\* pandas_agent.py:540-561  the availability and key checks, then the call of
\* query_with_pandasai(question, hint)
DataQuestionEntry(h) ==
    /\ pc[h] = "dq_entry"
    /\ IF ~PANDASAI_AVAILABLE
       THEN Return(h, [kind |-> "pandasai_not_available"]) /\ UNCHANGED calls
       ELSE IF ~api_key
       THEN Return(h, [kind |-> "api_key_required"]) /\ UNCHANGED calls
       ELSE /\ Goto(h, "qwp_connect")
            /\ calls' = [calls EXCEPT ![h] =
                  @ \o <<"query_with_pandasai",
                         "table_name=" \o DatasetHint(decision[h].dataset)>>]
            /\ UNCHANGED answer
    /\ UNCHANGED <<config, event, decision, said, conns, locals, warnings, propagated>>

\* pandasai_service.py:205-210, seen through pandas_agent.py:560-562
QueryError(e) == [kind |-> "pandasai_query_error", detail |-> e.detail]

\* pandasai_service.py:74  conn = _get_postgres_connection() in
\* _load_table_to_dataframe
QwpConnect(h) ==
    /\ pc[h] = "qwp_connect"
    /\ \E o \in ConnectOutcomes :
         IF o = "ok"
         THEN /\ Acquire(h)
              /\ Goto(h, "qwp_read")
              /\ UNCHANGED answer
         ELSE /\ Return(h, QueryError(ConnectError(o)))
              /\ UNCHANGED <<open, nextConn, conn>>
    /\ Log(h, "_load_table_to_dataframe")
    /\ UNCHANGED <<config, event, decision, said, pending, locals, warnings, propagated>>

\* pandasai_service.py:75-78  pd.read_sql_query(query, conn)
QwpRead(h) ==
    /\ pc[h] = "qwp_read"
    /\ \E ok \in BOOLEAN :
         pending' = [pending EXCEPT ![h] =
            IF ok THEN NoException
            ELSE Exception("DatabaseError", "Execution failed on sql")]
    /\ Goto(h, "qwp_close")
    /\ UNCHANGED <<config, event, decision, said, open, nextConn, conn, locals, answer,
                   calls, warnings, propagated>>

\* pandasai_service.py:79-80  finally: conn.close()
QwpClose(h) ==
    /\ pc[h] = "qwp_close"
    /\ Release(h)
    /\ IF pending[h].type # "none"
       THEN Return(h, QueryError(pending[h]))
       ELSE Goto(h, "qwp_chat") /\ UNCHANGED answer
    /\ UNCHANGED <<config, event, decision, said, locals, calls, warnings, propagated>>

\* pandasai_service.py:143-184  response = smart_df.chat(question), with the
\* additional insight when there is one
QwpChat(h) ==
    /\ pc[h] = "qwp_chat"
    /\ \E chat \in {"text", "none", "raise"}, chat2 \in ChatOutcomes :
         Return(h,
            CASE chat = "none" -> [kind |-> "no_response"]
              [] chat = "raise" -> QueryError(Exception("Exception", "chat failed"))
              [] OTHER -> [kind |-> "analysis", response |-> "<answer>",
                           insight |-> IF HasContent(analyze_with_llm(api_key, chat2))
                                       THEN analyze_with_llm(api_key, chat2) ELSE ""])
    /\ UNCHANGED <<config, event, decision, said, conns, locals, calls, warnings, propagated>>

(* ------- pandas_agent.py: _query_total_payments, _query_..._overview ---- *)
\* The four functions have one shape: conn = _get_connection(), then the
\* statements inside try, then finally: conn.close().

\* pandas_agent.py:72, 92, 141, 204  conn = _get_connection(); a failure
\* leaves the function as the exception
QueryConnect(h) ==
    /\ pc[h] = "query_connect"
    /\ \E o \in ConnectOutcomes :
         IF o = "ok"
         THEN /\ Acquire(h)
              /\ Goto(h, "query_execute")
              /\ UNCHANGED answer
         ELSE /\ answer' = [answer EXCEPT ![h] = Raises(ConnectError(o))]
              /\ Goto(h, "query_returned")
              /\ UNCHANGED <<open, nextConn, conn>>
    /\ Log(h, "_get_connection")
    /\ UNCHANGED <<config, event, decision, said, pending, locals, warnings, propagated>>

\* pandas_agent.py:73-77, 93-126, 142-189, 205-239  the statements are
\* executed and the rows read, or one of them fails
QueryExecute(h) ==
    /\ pc[h] = "query_execute"
    /\ \E ok \in BOOLEAN :
         pending' = [pending EXCEPT ![h] =
            IF ok THEN NoException
            ELSE Exception("psycopg2.ProgrammingError", "relation does not exist")]
    /\ Log(h, "cur.execute")
    /\ Goto(h, "query_close")
    /\ UNCHANGED <<config, event, decision, said, open, nextConn, conn, locals, answer,
                   warnings, propagated>>

\* pandas_agent.py:78-79, 127-128, 190-191, 240-241  finally: conn.close()
QueryClose(h) ==
    /\ pc[h] = "query_close"
    /\ Release(h)
    /\ answer' = [answer EXCEPT ![h] =
          IF pending[h].type # "none" THEN Raises(pending[h])
          ELSE Returns([kind |-> "overview"])]
    /\ Goto(h, "query_returned")
    /\ UNCHANGED <<config, event, decision, said, locals, calls, warnings, propagated>>

(* ------- pandas_agent.py: list_golden_queries, generate_sql_query ------ *)

\* pandas_agent.py:795-844  the catalogue is listed, none is found, or an
\* entry of a semantic layer file is not a mapping and query.get() raises
ListGoldenQueries(h) ==
    /\ pc[h] = "list_queries"
    /\ \E o \in {"listed", "none_found", "raise"} :
         /\ answer' = [answer EXCEPT ![h] =
              IF o = "raise"
              THEN Raises(Exception("AttributeError", "'str' object has no attribute 'get'"))
              ELSE Returns([kind |-> "golden_queries", found |-> o = "listed"])]
         /\ Goto(h, "returned")
    /\ UNCHANGED <<config, event, decision, said, conns, locals, calls, warnings, propagated>>

\* pandas_agent.py:971-1032
GenerateSqlQuery(h) ==
    /\ pc[h] = "generate_sql"
    /\ Return(h, generate_sql_query(text[h], decision[h].dataset))
    /\ UNCHANGED <<config, event, decision, said, conns, locals, calls, warnings, propagated>>

(* --------------------------- specifications ---------------------------- *)

\* the state of one handler before any call
InitHandlers ==
    /\ user = [h \in Handlers |-> "None"]
    /\ decision = [h \in Handlers |-> NoDecision]
    /\ said = [h \in Handlers |-> <<>>]
    /\ events = 0
    /\ open = {}
    /\ nextConn = 1
    /\ conn = [h \in Handlers |-> 0]
    /\ pending = [h \in Handlers |-> NoException]
    /\ sql = [h \in Handlers |-> <<>>]
    /\ historical_data = [h \in Handlers |-> <<>>]
    /\ trend = [h \in Handlers |-> NoTrend]
    /\ predictions = [h \in Handlers |-> <<>>]
    /\ base_response = [h \in Handlers |-> NoValue]
    /\ llm_insight = [h \in Handlers |-> ""]
    /\ answer = [h \in Handlers |-> NoAnswer]
    /\ calls = [h \in Handlers |-> <<>>]
    /\ warnings = [h \in Handlers |-> 0]
    /\ propagated = [h \in Handlers |-> FALSE]

\* handler 1 is at label with argument t, the others are idle
DirectCall(label, t) ==
    /\ pc = [h \in Handlers |-> IF h = 1 THEN label ELSE "idle"]
    /\ text = [h \in Handlers |-> IF h = 1 THEN t ELSE <<>>]

\* the data store of the bot's runs: a history one month short of the
\* threshold, or at the threshold
SpecStores ==
    {[history |-> History(n, "rising", FALSE), rows |-> 1] :
        n \in {MinHistoryMonths - 1, MinHistoryMonths}}

\* the bot
Init ==
    /\ InitHandlers
    /\ DirectCall("idle", <<>>)
    /\ store \in SpecStores
    /\ PANDASAI_AVAILABLE \in BOOLEAN
    /\ api_key \in BOOLEAN

RunSubscriptionPrediction(h) ==
    \/ PredConnect(h) \/ PredExecute(h) \/ PredClose(h) \/ PredCheck(h) \/ PredTrend(h)
    \/ PredForecast(h) \/ PredFormat(h) \/ PredInsight(h) \/ PredReturn(h)

RunSqlQuery(h) ==
    \/ SqlExtract(h) \/ SqlValidate(h) \/ SqlConnect(h) \/ SqlExecute(h) \/ SqlExplain(h)
    \/ SqlClose(h)

RunDataQuestion(h) ==
    \/ DataQuestionEntry(h) \/ QwpConnect(h) \/ QwpRead(h) \/ QwpClose(h) \/ QwpChat(h)

\* handle_message_events on one event after the other
Next ==
    \/ HandleEvent(1) \/ AppHandleMessageEvents(1)
    \/ Route(1) \/ SayStatic(1) \/ Dispatch(1)
    \/ RunDataQuestion(1) \/ RunSubscriptionPrediction(1) \/ RunSqlQuery(1)
    \/ ListGoldenQueries(1) \/ GenerateSqlQuery(1)
    \/ SayAnswer(1) \/ Finish(1)

Spec == Init /\ [][Next]_vars

\* route_message called on its own on a text
InitRoute ==
    /\ InitHandlers
    /\ \E t \in Texts : DirectCall("route", t)
    /\ store = [history |-> <<>>, rows |-> 0]
    /\ PANDASAI_AVAILABLE = TRUE
    /\ api_key = TRUE

NextRoute == Route(1)

SpecRoute == InitRoute /\ [][NextRoute]_vars

\* run_sql_query called on its own on a message
InitSql ==
    /\ InitHandlers
    /\ \E t \in SqlTexts : DirectCall("sql_extract", t)
    /\ \E n \in RowCounts : store = [history |-> <<>>, rows |-> n]
    /\ PANDASAI_AVAILABLE \in BOOLEAN
    /\ api_key \in BOOLEAN

NextSql == RunSqlQuery(1)

SpecSql == InitSql /\ [][NextSql]_vars

\* run_subscription_prediction called on its own, on every history
InitPrediction ==
    /\ InitHandlers
    /\ DirectCall("pred_connect", <<"p","r","e","d","i","c","t">>)
    /\ \E hist \in Histories : store = [history |-> hist, rows |-> 0]
    /\ PANDASAI_AVAILABLE \in BOOLEAN
    /\ api_key \in BOOLEAN

NextPrediction == RunSubscriptionPrediction(1)

SpecPrediction == InitPrediction /\ [][NextPrediction]_vars

\* the data-fetching operations: the entry point of each, and the statement
\* run_sql_query executes
FetchOperations == {"pred_connect", "sql_connect", "qwp_connect", "query_connect"}

\* a request handler invokes a data-fetching operation
CallFetch(h) ==
    /\ pc[h] = "idle"
    /\ events < MaxEvents
    /\ events' = events + 1
    /\ \E op \in FetchOperations :
         /\ Goto(h, op)
         /\ sql' = [sql EXCEPT ![h] =
                      IF op = "sql_connect" THEN <<"s","e","l","e","c","t"," ","1">> ELSE <<>>]
    /\ UNCHANGED <<config, user, text, decision, said, conns, historical_data, trend,
                   predictions, base_response, llm_insight, answer, calls, warnings,
                   propagated>>

\* where control is once the operation has returned to its caller: after the
\* fetch in run_subscription_prediction and in query_with_pandasai, after
\* run_sql_query, and after a _query_... function
BackAtCaller == {"pred_check", "qwp_chat", "returned", "query_returned"}

\* the caller carries on; its locals are gone
FetchReturned(h) ==
    /\ pc[h] \in BackAtCaller
    /\ Goto(h, "idle")
    /\ sql' = [sql EXCEPT ![h] = <<>>]
    /\ historical_data' = [historical_data EXCEPT ![h] = <<>>]
    /\ base_response' = [base_response EXCEPT ![h] = NoValue]
    /\ llm_insight' = [llm_insight EXCEPT ![h] = ""]
    /\ answer' = [answer EXCEPT ![h] = NoAnswer]
    /\ calls' = [calls EXCEPT ![h] = <<>>]
    /\ UNCHANGED <<config, event, decision, said, conns, trend, predictions, warnings,
                   propagated>>

\* NumHandlers request handlers invoke the data-fetching operations
\* concurrently
InitFetch ==
    /\ InitHandlers
    /\ DirectCall("idle", <<>>)
    /\ store \in SpecStores
    /\ PANDASAI_AVAILABLE \in BOOLEAN
    /\ api_key = TRUE

NextFetch ==
    \E h \in Handlers :
        \/ CallFetch(h)
        \/ PredConnect(h) \/ PredExecute(h) \/ PredClose(h)
        \/ SqlConnect(h) \/ SqlExecute(h) \/ SqlExplain(h) \/ SqlClose(h)
        \/ QwpConnect(h) \/ QwpRead(h) \/ QwpClose(h)
        \/ QueryConnect(h) \/ QueryExecute(h) \/ QueryClose(h)
        \/ FetchReturned(h)

SpecFetch == InitFetch /\ [][NextFetch]_vars

(* ---------------- route_message called by every handler ---------------- *)

\* str.swapcase() on ASCII letters
SwapCase(s) ==
    [i \in 1..Len(s) |-> IF LowerChar(s[i]) # s[i] THEN LowerChar(s[i]) ELSE UpperChar(s[i])]

\* t itself, t with its letters changed in case, and t inside whitespace
Variants(t) == {t, Upper(t), Lower(t), SwapCase(t), <<"\n", " ">> \o t \o <<" ", "\t">>}

RouteTexts == Phrases \cup Messages

\* every handler is about to route a variant of one text
InitRouteAll ==
    /\ InitHandlers
    /\ pc = [h \in Handlers |-> "route"]
    /\ \E t \in RouteTexts : text \in [Handlers -> Variants(t)]
    /\ store = [history |-> <<>>, rows |-> 0]
    /\ PANDASAI_AVAILABLE = TRUE
    /\ api_key = TRUE

\* the calls run in any order
NextRouteAll == \E h \in Handlers : Route(h)

SpecRouteAll == InitRouteAll /\ [][NextRouteAll]_vars

(* ----------------- generate_sql_query called on its own ---------------- *)

\* the words of a request: the table, and for every filter the wordings that
\* leave it out and that set each of its values
Subjects == {<<"s","q","l"," ","f","o","r"," ","s","u","b","s","c","r","i","p","t","i","o","n","s">>,
             <<"s","q","l"," ","f","o","r"," ","u","s","e","r","s">>}

RegionWords == {<<>>, <<"i","n"," ","t","h","e"," ","E","U">>, <<"i","n"," ","t","h","e"," ","U","S">>}

StatusWords == {<<>>, <<"a","c","t","i","v","e">>, <<"C","h","u","r","n","e","d">>}

DateWords == {<<>>, <<"l","a","s","t"," ","m","o","n","t","h">>,
              <<"l","a","s","t"," ","q","u","a","r","t","e","r">>,
              <<"p","a","s","t"," ","y","e","a","r">>}

GroupWords == {<<>>, <<"b","y"," ","p","l","a","n">>, <<"b","y"," ","c","o","u","n","t","r","y">>}

Requests ==
    {Join(<<s, r, st, d, g>>) : s \in Subjects, r \in RegionWords, st \in StatusWords,
                                d \in DateWords, g \in GroupWords}

\* generate_sql_query(text, dataset) on every request and every dataset
InitGenerateSql ==
    /\ user = [h \in Handlers |-> "None"]
    /\ said = [h \in Handlers |-> <<>>]
    /\ events = 0
    /\ open = {}
    /\ nextConn = 1
    /\ conn = [h \in Handlers |-> 0]
    /\ pending = [h \in Handlers |-> NoException]
    /\ sql = [h \in Handlers |-> <<>>]
    /\ historical_data = [h \in Handlers |-> <<>>]
    /\ trend = [h \in Handlers |-> NoTrend]
    /\ predictions = [h \in Handlers |-> <<>>]
    /\ base_response = [h \in Handlers |-> NoValue]
    /\ llm_insight = [h \in Handlers |-> ""]
    /\ answer = [h \in Handlers |-> NoAnswer]
    /\ calls = [h \in Handlers |-> <<>>]
    /\ warnings = [h \in Handlers |-> 0]
    /\ propagated = [h \in Handlers |-> FALSE]
    /\ store = [history |-> <<>>, rows |-> 0]
    /\ PANDASAI_AVAILABLE = FALSE
    /\ api_key = FALSE
    /\ \E t \in Requests : DirectCall("generate_sql", t)
    /\ \E d \in Datasets :
         decision = [h \in Handlers |->
                       IF h = 1 THEN RouteDecision("generate_sql", d, "") ELSE NoDecision]

NextGenerateSql == GenerateSqlQuery(1)

SpecGenerateSql == InitGenerateSql /\ [][NextGenerateSql]_vars

(* ------------------ run_data_question called on its own ---------------- *)

Questions ==
    { <<"h","o","w"," ","m","a","n","y"," ","u","s","e","r","s">>,
      <<"h","o","w"," ","m","a","n","y">>,
      <<"r","e","v","e","n","u","e"," ","b","y"," ","c","o","u","n","t","r","y">> }

\* run_data_question(dataset_name, question) with every dataset name
InitDataQuestion ==
    /\ user = [h \in Handlers |-> "None"]
    /\ said = [h \in Handlers |-> <<>>]
    /\ events = 0
    /\ open = {}
    /\ nextConn = 1
    /\ conn = [h \in Handlers |-> 0]
    /\ pending = [h \in Handlers |-> NoException]
    /\ sql = [h \in Handlers |-> <<>>]
    /\ historical_data = [h \in Handlers |-> <<>>]
    /\ trend = [h \in Handlers |-> NoTrend]
    /\ predictions = [h \in Handlers |-> <<>>]
    /\ base_response = [h \in Handlers |-> NoValue]
    /\ llm_insight = [h \in Handlers |-> ""]
    /\ answer = [h \in Handlers |-> NoAnswer]
    /\ calls = [h \in Handlers |-> <<>>]
    /\ warnings = [h \in Handlers |-> 0]
    /\ propagated = [h \in Handlers |-> FALSE]
    /\ store = [history |-> <<>>, rows |-> 0]
    /\ PANDASAI_AVAILABLE \in BOOLEAN
    /\ api_key \in BOOLEAN
    /\ \E t \in Questions : DirectCall("dq_entry", t)
    /\ \E d \in Datasets :
         decision = [h \in Handlers |->
                       IF h = 1 THEN RouteDecision("data_question", d, "") ELSE NoDecision]

NextDataQuestion == RunDataQuestion(1)

SpecDataQuestion == InitDataQuestion /\ [][NextDataQuestion]_vars

(* --------------- the numeric functions called on their own ------------- *)

\* the longest series passed to the functions, and the largest month offset
\* of an entry from the series' start month
MaxSeriesLen == 3

MaxOffset == 4

StartMonths == {<<2023, 9>>, <<2023, 12>>}

\* the month offsets of the entries, in any order, months repeated or skipped
OffsetLists == UNION {[1..n -> 0..MaxOffset] : n \in 0..MaxSeriesLen}

\* counts on the line a + b * months_since_first, or off any line
CountShapes ==
    {[line |-> TRUE, a |-> 10, b |-> 5], [line |-> TRUE, a |-> 40, b |-> -3],
     [line |-> TRUE, a |-> 7, b |-> 0], [line |-> FALSE, a |-> 20, b |-> 0]}

\* the list of (year, month, count) tuples
Series(offs, start, shape) ==
    [i \in 1..Len(offs) |->
        LET ym == AdvanceMonth(start[1], start[2], offs[i])
        IN  <<ym[1], ym[2],
              IF shape.line THEN shape.a + shape.b * (offs[i] - offs[1])
              ELSE shape.a + ((offs[i] * offs[i] + i) % 7)>>]

AllSeries ==
    {Series(offs, start, shape) : offs \in OffsetLists, start \in StartMonths,
                                  shape \in CountShapes}

\* the slope and intercept arguments of a forecast
Slopes == {<<-7, 1>>, <<-1, 2>>, <<0, 1>>, <<5, 1>>}

Intercepts == {<<-20, 1>>, <<0, 1>>, <<10, 1>>}

\* pandas_agent.py:274-316  _calculate_linear_trend(historical_data) returns
\* the pair or raises
CallTrend(h) ==
    /\ pc[h] = "fit"
    /\ LET r == _calculate_linear_trend(historical_data[h])
       IN  IF r.raised
           THEN /\ answer' = [answer EXCEPT ![h] = Raises(Exception(r.type, r.detail))]
                /\ UNCHANGED trend
           ELSE /\ trend' = [trend EXCEPT ![h] = [slope |-> r.slope, intercept |-> r.intercept]]
                /\ answer' = [answer EXCEPT ![h] = Returns([kind |-> "trend"])]
    /\ Log(h, "_calculate_linear_trend")
    /\ Goto(h, "fit_returned")
    /\ UNCHANGED <<config, event, decision, said, conns, sql, historical_data, predictions,
                   base_response, llm_insight, warnings, propagated>>

\* pandas_agent.py:319-371  _predict_future_subscriptions(historical_data,
\* slope, intercept) returns the predictions or raises
CallForecast(h) ==
    /\ pc[h] = "forecast"
    /\ LET r == _predict_future_subscriptions(historical_data[h], trend[h].slope,
                                              trend[h].intercept)
       IN  IF r.raised
           THEN /\ answer' = [answer EXCEPT ![h] = Raises(Exception(r.type, r.detail))]
                /\ UNCHANGED predictions
           ELSE /\ predictions' = [predictions EXCEPT ![h] = r.predictions]
                /\ answer' = [answer EXCEPT ![h] = Returns([kind |-> "predictions"])]
    /\ Log(h, "_predict_future_subscriptions")
    /\ Goto(h, "forecast_returned")
    /\ UNCHANGED <<config, event, decision, said, conns, sql, historical_data, trend,
                   base_response, llm_insight, warnings, propagated>>

\* either function called on a series; the forecast with any coefficients
InitNumeric ==
    /\ user = [h \in Handlers |-> "None"]
    /\ decision = [h \in Handlers |-> NoDecision]
    /\ said = [h \in Handlers |-> <<>>]
    /\ events = 0
    /\ open = {}
    /\ nextConn = 1
    /\ conn = [h \in Handlers |-> 0]
    /\ pending = [h \in Handlers |-> NoException]
    /\ sql = [h \in Handlers |-> <<>>]
    /\ predictions = [h \in Handlers |-> <<>>]
    /\ base_response = [h \in Handlers |-> NoValue]
    /\ llm_insight = [h \in Handlers |-> ""]
    /\ answer = [h \in Handlers |-> NoAnswer]
    /\ calls = [h \in Handlers |-> <<>>]
    /\ warnings = [h \in Handlers |-> 0]
    /\ propagated = [h \in Handlers |-> FALSE]
    /\ store = [history |-> <<>>, rows |-> 0]
    /\ PANDASAI_AVAILABLE = FALSE
    /\ api_key = FALSE
    /\ \E series \in AllSeries :
         historical_data = [h \in Handlers |-> IF h = 1 THEN series ELSE <<>>]
    /\ \/ /\ DirectCall("fit", <<>>)
          /\ trend = [h \in Handlers |-> NoTrend]
       \/ /\ DirectCall("forecast", <<>>)
          /\ \E m \in Slopes, b \in Intercepts :
               trend = [h \in Handlers |->
                          IF h = 1 THEN [slope |-> m, intercept |-> b] ELSE NoTrend]

NextNumeric == CallTrend(1) \/ CallForecast(1)

SpecNumeric == InitNumeric /\ [][NextNumeric]_vars


(* ------------------------------- claims -------------------------------- *)

Routed == pc[1] = "dispatch"

lower1 == Strip(Lower(text[1]))

\* the text of handler 1 contains a keyword of the category
MentionsUsers == HasAny(lower1, USERS_KEYWORDS)

MentionsPayments == HasAny(lower1, PAYMENTS_KEYWORDS)

MentionsSubscriptions == HasAny(lower1, SUBSCRIPTIONS_KEYWORDS)

MentionsSessions == HasAny(lower1, SESSIONS_KEYWORDS)

\* the last category, in the order users, payments, subscriptions, sessions,
\* that has a keyword in the text
LastCategory ==
    IF MentionsSessions THEN "sessions"
    ELSE IF MentionsSubscriptions THEN "subscriptions"
    ELSE IF MentionsPayments THEN "payments"
    ELSE IF MentionsUsers THEN "users"
    ELSE "none"

\* the text starts with a SQL statement keyword, or has select with from/where
SqlSyntax ==
    \/ \E k \in SQL_KEYWORDS : StartsWith(lower1, k)
    \/ (Contains(lower1, <<"s","e","l","e","c","t">>)
          /\ (Contains(lower1, <<"f","r","o","m">>) \/ Contains(lower1, <<"w","h","e","r","e">>)))

\* one of the rules before the dataset inference matches
EarlierRule ==
    \/ HasAny(lower1, HELP_KEYWORDS)
    \/ HasAny(lower1, GENERATE_SQL_KEYWORDS)
    \/ HasAny(lower1, LIST_QUERIES_KEYWORDS)
    \/ SqlSyntax
    \/ HasAny(lower1, SQL_QUERY_INDICATORS)

\* C1: a text containing a help keyword is routed as (help, none), whatever
\* else it contains
C1_HelpWins ==
    (Routed /\ HasAny(lower1, HELP_KEYWORDS))
        => (decision[1].intent = "help" /\ decision[1].dataset = "none")

\* a help keyword together with SQL syntax and a dataset keyword
C1_Witness ==
    /\ Routed
    /\ HasAny(lower1, HELP_KEYWORDS)
    /\ SqlSyntax
    /\ decision[1].intent = "help"

C3_PredictionOnlySubscriptions ==
    Routed =>
        /\ (decision[1].intent = "prediction") => (decision[1].dataset = "subscriptions")
        /\ (HasAny(lower1, PREDICTION_KEYWORDS) /\ LastCategory = "subscriptions" /\ ~EarlierRule)
              => (decision[1].intent = "prediction" /\ decision[1].dataset = "subscriptions")
        /\ (HasAny(lower1, PREDICTION_KEYWORDS) /\ LastCategory # "subscriptions")
              => (decision[1].intent # "prediction")

\* a prediction keyword with subscriptions is routed as prediction
C3_Witness ==
    /\ Routed
    /\ HasAny(lower1, PREDICTION_KEYWORDS)
    /\ LastCategory = "subscriptions"
    /\ decision[1].intent = "prediction"

\* the number of dataset categories with a keyword in the text
CategoriesMentioned ==
    Cardinality({c \in {"users", "payments", "subscriptions", "sessions"} :
        \/ c = "users" /\ MentionsUsers
        \/ c = "payments" /\ MentionsPayments
        \/ c = "subscriptions" /\ MentionsSubscriptions
        \/ c = "sessions" /\ MentionsSessions})

\* C4: an analysis phrase with keywords of exactly one dataset, and no help,
\* generate-SQL, list-queries or prediction keyword, no 'select' and no
\* 'sql:'/'query:' indicator, is routed as data_question with that dataset
C4_DataQuestionOneDataset ==
    (/\ Routed
     /\ HasAny(lower1, DATA_PHRASES)
     /\ CategoriesMentioned = 1
     /\ ~HasAny(lower1, HELP_KEYWORDS)
     /\ ~HasAny(lower1, GENERATE_SQL_KEYWORDS)
     /\ ~HasAny(lower1, LIST_QUERIES_KEYWORDS)
     /\ ~HasAny(lower1, PREDICTION_KEYWORDS)
     /\ ~Contains(lower1, <<"s","e","l","e","c","t">>)
     /\ ~Contains(lower1, <<"s","q","l",":">>)
     /\ ~Contains(lower1, <<"q","u","e","r","y",":">>))
        => (decision[1].intent = "data_question" /\ decision[1].dataset = LastCategory)

\* C5: small_talk is returned only for a text of at most 4 words that has a
\* small-talk keyword, no dataset keyword, no analysis phrase, no holiday
\* keyword, and matches no earlier rule
C5_SmallTalkOnlyShortNoData ==
    (Routed /\ decision[1].intent = "small_talk")
        => /\ WordCount(lower1) <= 4
           /\ HasAny(lower1, SMALL_TALK_KEYWORDS)
           /\ LastCategory = "none"
           /\ ~HasAny(lower1, DATA_PHRASES)
           /\ ~HasAny(lower1, HOLIDAY_KEYWORDS)
           /\ ~EarlierRule

\* a short greeting is routed as small_talk
C5_Witness ==
    /\ Routed
    /\ decision[1].intent = "small_talk"
    /\ WordCount(lower1) >= 2

\* name is among the functions handler h has invoked
InCalls(h, name) == \E i \in 1..Len(calls[h]) : calls[h][i] = name

\* every invocation of later in calls[h] comes after an invocation of earlier
CalledAfter(h, later, earlier) ==
    \A i \in 1..Len(calls[h]) :
        calls[h][i] = later => \E j \in 1..(i - 1) : calls[h][j] = earlier

\* the first whitespace-delimited token of the statement is an allowed
\* statement keyword and no dangerous keyword occurs in it, in any case
Allowed(stmt) ==
    /\ \E k \in safe_prefixes :
          /\ StartsWith(Upper(Strip(stmt)), k)
          /\ (Len(Strip(stmt)) = Len(k) \/ Strip(stmt)[Len(k) + 1] \in Whitespace)
    /\ \A k \in dangerous_keywords : ~Contains(Upper(stmt), k)

\* C6: run_sql_query opens a connection and executes only a statement whose
\* first token is SELECT, WITH, EXPLAIN, DESCRIBE or SHOW and that has no
\* dangerous keyword as a substring; any other non-empty statement gets the
\* security error without a connection; 'SELECT * FROM users' passes
C6_OnlyReadOnlySqlExecuted ==
    /\ (InCalls(1, "_get_connection") \/ InCalls(1, "cur.execute") \/ conn[1] # 0)
          => Allowed(sql[1])
    /\ (pc[1] = "returned" /\ sql[1] # <<>> /\ ~Allowed(sql[1]))
          => /\ answer[1].value.kind = "security_error"
             /\ ~InCalls(1, "_get_connection")
             /\ ~InCalls(1, "cur.execute")
             /\ open = {} /\ nextConn = 1
    /\ (pc[1] = "returned" /\ Upper(sql[1]) = Upper(<<"S","E","L","E","C","T"," ","*"," ",
                                                      "F","R","O","M"," ","u","s","e","r","s">>))
          => InCalls(1, "_get_connection")

\* a statement that starts with SELECT and holds a dangerous keyword is
\* rejected before any connection
C6_Witness ==
    /\ pc[1] = "returned"
    /\ answer[1].value.kind = "security_error"
    /\ StartsWith(Upper(sql[1]), <<"S","E","L","E","C","T">>)
    /\ nextConn = 1

\* where handler h holds the connection of a data-fetching operation
InsideFetch == {"pred_execute", "pred_close", "sql_execute", "sql_explain", "sql_close",
                "qwp_read", "qwp_close", "query_execute", "query_close"}

\* C7: every invocation of a data-fetching operation has a connection of its
\* own, and the connection is closed when control is back at the caller, on
\* the normal and on the exception path: the open connections are exactly
\* those held by invocations in progress, no two invocations hold the same
\* one, and none is one a later invocation will be given
C7_ConnectionPerInvocation ==
    /\ open = {conn[h] : h \in {g \in Handlers : conn[g] # 0}}
    /\ \A h \in Handlers : conn[h] # 0 <=> pc[h] \in InsideFetch
    /\ \A h, g \in Handlers : (h # g /\ conn[h] # 0) => conn[h] # conn[g]
    /\ \A c \in open : c < nextConn

\* handler 1 is back from a _query_... function that raised after its
\* connection was opened, the connection closed, while
\* handler 2 is inside an operation with its own connection
C7_Witness ==
    /\ NumHandlers >= 2
    /\ pc[1] = "query_returned"
    /\ answer[1].raised
    /\ InCalls(1, "cur.execute")
    /\ conn[NumHandlers] # 0
    /\ open = {conn[NumHandlers]}

\* C8: for an event with user and text, whatever the intent and whatever the
\* collaborator returns or raises, the handler sends exactly one response and
\* no exception leaves it; a raised exception becomes an apology with the
\* error detail
C8_OneResponsePerEvent ==
    /\ ~propagated[1]
    /\ (pc[1] = "done" /\ user[1] # "None" /\ text[1] # <<>>)
          => /\ Len(said[1]) = 1
             /\ answer[1].raised
                   => /\ said[1][1].kind = "apology"
                      /\ said[1][1].detail = answer[1].value.detail
             /\ (~answer[1].raised /\ EntryPoint(decision[1].intent) # "none")
                   => /\ said[1][1].kind = "answer"
                      /\ said[1][1].body = answer[1].value
    /\ pc[1] \notin {"done", "idle"} => Len(said[1]) = 0
    /\ (pc[1] = "returned" /\ Collaborator(decision[1].intent) = "run_subscription_prediction")
          => ~answer[1].raised

\* the collaborator raised and the handler sent the apology
C8_Witness ==
    /\ pc[1] = "done"
    /\ answer[1].raised
    /\ Len(said[1]) = 1
    /\ said[1][1].kind = "apology"

\* the error details of a failed historical fetch
FetchFailureDetails ==
    {ConnectError(o).detail : o \in ConnectOutcomes \ {"ok"}} \cup {"relation does not exist"}

\* run_subscription_prediction returned the error response of a failed fetch
FetchFailed(h) ==
    /\ answer[h].value.kind \in {"prediction_error", "prediction_value_error"}
    /\ answer[h].value.detail \in FetchFailureDetails

AfterCheck == {"pred_trend", "pred_forecast", "pred_format", "pred_insight", "pred_return"}

\* C9: when the fetch returns fewer than 6 monthly entries the result is the
\* insufficient-data message and neither the fit, the forecast nor the LLM
\* insight is invoked; with 6 or more the fit and the forecast are invoked, in
\* that order, after the fetch
C9_ThresholdBeforeFit ==
    /\ Len(store.history) < 6
          => /\ ~InCalls(1, "_calculate_linear_trend")
             /\ ~InCalls(1, "_predict_future_subscriptions")
             /\ ~InCalls(1, "analyze_with_llm")
             /\ pc[1] \notin AfterCheck
             /\ (pc[1] = "returned" /\ ~FetchFailed(1))
                   => /\ answer[1].value.kind = "insufficient_data"
                      /\ answer[1].value.months = Len(store.history)
    /\ Len(store.history) >= 6
          => /\ (pc[1] = "returned" /\ ~FetchFailed(1))
                   => /\ Len(calls[1]) >= 3
                      /\ SubSeq(calls[1], 1, 3) =
                            <<"_get_historical_new_subscriptions", "_calculate_linear_trend",
                              "_predict_future_subscriptions">>
                      /\ answer[1].value.kind # "insufficient_data"
             /\ CalledAfter(1, "_calculate_linear_trend", "_get_historical_new_subscriptions")
             /\ CalledAfter(1, "_predict_future_subscriptions", "_calculate_linear_trend")

\* five months of history: the insufficient-data message
C9_Witness ==
    /\ pc[1] = "returned"
    /\ Len(store.history) = 5
    /\ answer[1].value.kind = "insufficient_data"

\* the report of a history, by the fit, the forecast and the formatting
ReportOf(history) ==
    LET t == _calculate_linear_trend(history)
        p == _predict_future_subscriptions(history, t.slope, t.intercept)
    IN  _format_prediction_response(history, p.predictions, t.slope)

\* C10: with 6 or more months the numeric report is built before the LLM
\* insight is asked for, and the response carries it unchanged whatever the
\* LLM call does; the response is never an error response because of it
C10_ReportSurvivesInsight ==
    Len(store.history) >= 6
        => /\ InCalls(1, "analyze_with_llm") => base_response[1] = ReportOf(store.history)
           /\ pc[1] \in {"pred_insight", "pred_return"}
                 => base_response[1] = ReportOf(store.history)
           /\ (pc[1] = "returned" /\ ~FetchFailed(1))
                 => /\ answer[1].value.kind = "prediction"
                    /\ answer[1].value.report = ReportOf(store.history)
                    /\ answer[1].value.report.kind = "report"
                    /\ Len(answer[1].value.report.breakdown) = 12

\* the LLM call failed inside analyze_with_llm (only its fallback text came
\* back) and the report was returned
C10_Witness ==
    /\ pc[1] = "returned"
    /\ api_key
    /\ InCalls(1, "analyze_with_llm")
    /\ llm_insight[1] = analyze_with_llm(TRUE, "raise")
    /\ answer[1].value.kind = "prediction"
    /\ answer[1].value.report.total > 0

\* the analyze_with_llm call made for the prediction failed
InsightCallFailed == InCalls(1, "analyze_with_llm.except")

\* C11: when the insight call of a prediction fails, a warning is logged for
\* it and the response has no insight section
C11_InsightFailureLoggedNotSurfaced ==
    (pc[1] = "returned" /\ InsightCallFailed)
        => (/\ warnings[1] > 0
            /\ ~answer[1].raised
            /\ answer[1].value.kind = "prediction"
            /\ answer[1].value.insight = "")

\* the series passed to the function called on its own
series1 == historical_data[1]

\* C12: _calculate_linear_trend raises the insufficient-data ValueError on a
\* series of length 0 or 1 and returns a pair on every longer series
C12_TrendNeedsTwoPoints ==
    (pc[1] = "fit_returned") =>
        IF Len(series1) < 2
        THEN /\ answer[1].raised
             /\ answer[1].value.type = "ValueError"
             /\ answer[1].value.detail = "Need at least 2 data points to calculate trend"
        ELSE ~answer[1].raised

\* a series of one entry was refused
C12_Witness ==
    /\ pc[1] = "fit_returned"
    /\ Len(series1) = 1
    /\ answer[1].raised

\* the month offset of an entry from the first entry of the series
OffsetFromFirst(i) ==
    (series1[i][1] * 12 + series1[i][2]) - (series1[1][1] * 12 + series1[1][2])

\* the counts of the series are a + b * OffsetFromFirst
OnLine(a, b) == \A i \in 1..Len(series1) : series1[i][3] = a + b * OffsetFromFirst(i)

\* the series has entries in at least two distinct months
TwoMonths == \E i \in 1..Len(series1) : OffsetFromFirst(i) # 0

\* C13: on a series in at least two distinct months whose counts are exactly
\* a + b * months_since_first, the fit returns slope b and intercept a
C13_ExactLineRecovered ==
    (pc[1] = "fit_returned" /\ Len(series1) >= 2 /\ TwoMonths) =>
        \A a \in 0..40, b \in -3..5 :
            OnLine(a, b) =>
                (/\ ~answer[1].raised
                 /\ trend[1].slope = <<b, 1>>
                 /\ trend[1].intercept = <<a, 1>>)

\* count = 10 + 5 * monthIndex over months with a gap gave slope 5, intercept 10
C13_Witness ==
    /\ pc[1] = "fit_returned"
    /\ Len(series1) = MaxSeriesLen
    /\ OnLine(10, 5)
    /\ \E i \in 2..Len(series1) : OffsetFromFirst(i) - OffsetFromFirst(i - 1) > 1
    /\ trend[1] = [slope |-> <<5, 1>>, intercept |-> <<10, 1>>]

\* the calendar month i months after the last entry of the series, as
\* <<year, month>>
MonthAfterLast(i) ==
    LET last == series1[Len(series1)]
        total == last[1] * 12 + (last[2] - 1) + i
    IN  <<total \div 12, (total % 12) + 1>>

\* C14: on a non-empty history the forecast has exactly 12 entries, the 12
\* consecutive calendar months after the last entry, December rolling over to
\* January of the next year
C14_TwelveConsecutiveMonths ==
    (pc[1] = "forecast_returned" /\ Len(series1) > 0) =>
        /\ ~answer[1].raised
        /\ Len(predictions[1]) = 12
        /\ \A i \in 1..Len(predictions[1]) :
              /\ <<predictions[1][i][1], predictions[1][i][2]>> = MonthAfterLast(i)
              /\ predictions[1][i][2] \in 1..12

\* a history with a gap ending at (2023, 12) gave (2024, 1) through (2024, 12)
C14_Witness ==
    /\ pc[1] = "forecast_returned"
    /\ Len(series1) = MaxSeriesLen
    /\ \E i \in 2..Len(series1) : OffsetFromFirst(i) - OffsetFromFirst(i - 1) > 1
    /\ series1[Len(series1)][1] = 2023 /\ series1[Len(series1)][2] = 12
    /\ predictions[1][1][1] = 2024 /\ predictions[1][1][2] = 1
    /\ predictions[1][12][1] = 2024 /\ predictions[1][12][2] = 12

\* slope * (lastOffset + i) + intercept, as an exact fraction
LineValue(i) ==
    RAdd(RMul(trend[1].slope, FromInt(OffsetFromFirst(Len(series1)) + i)), trend[1].intercept)

\* C15: the i-th predicted count is max(0, slope * (lastOffset + i) +
\* intercept), so no predicted count is negative
C15_ForecastClampedAtZero ==
    (pc[1] = "forecast_returned" /\ Len(series1) > 0) =>
        \A i \in 1..Len(predictions[1]) :
            LET v == LineValue(i)
                count == predictions[1][i][3]
            IN  /\ count[1] >= 0 /\ count[2] > 0
                /\ IF v[1] < 0 THEN count = <<0, 1>> ELSE count = v

\* a negative slope took the line below zero inside the 12 months: the first
\* count is positive and the last is zero
C15_Witness ==
    /\ pc[1] = "forecast_returned"
    /\ Len(series1) > 0
    /\ RLess(trend[1].slope, <<0, 1>>)
    /\ RLess(<<0, 1>>, predictions[1][1][3])
    /\ RLess(LineValue(12), <<0, 1>>)
    /\ predictions[1][12][3] = <<0, 1>>

\* the text has something in it and no SQL statement keyword anywhere
NotSql(t) ==
    /\ Strip(t) # <<>>
    /\ ~HasAny(Upper(t), safe_prefixes \cup dangerous_keywords)

\* C16: for a text that is not a SQL statement the extraction returns None
\* and run_sql_query answers 'No SQL query found' without validating or
\* executing anything
C16_NonSqlTextGivesNoSqlFound ==
    (NotSql(text[1]) /\ InCalls(1, "_extract_sql_from_message")) =>
        /\ sql[1] = <<>>
        /\ ~InCalls(1, "_is_safe_sql_query")
        /\ ~InCalls(1, "cur.execute")
        /\ (pc[1] = "returned") => (answer[1].value.kind = "no_sql")

\* q starts with a SQL verb
IsStatement(q) == FirstWord(Upper(Strip(q))) \in safe_prefixes \cup dangerous_keywords

\* q carries a code-fence marker, or starts with 'sql:' or 'query:'
HasFence(q) == \E i \in 1..Len(q) : HasAt(q, i, Fence)

HasLeadingPrefix(q) ==
    \/ HasAt(Strip(q), 1, <<"s","q","l",":">>)
    \/ HasAt(Strip(q), 1, <<"q","u","e","r","y",":">>)

\* some line of q starts with 'sql:' or 'query:'
HasPrefixedLine(q) ==
    \E i \in 1..Len(q) :
        /\ AtLineStart(q, i)
        /\ HasAt(q, i, <<"s","q","l",":">>) \/ HasAt(q, i, <<"q","u","e","r","y",":">>)

\* q alone, q in a sql code block, q after 'sql:' or 'query:'
Wrappings(q) ==
    { q,
      <<BQ,BQ,BQ,"s","q","l","\n">> \o q \o <<"\n",BQ,BQ,BQ>>,
      <<"s","q","l",":"," ">> \o q,
      <<"Q","u","e","r","y",":">> \o q }

\* the statements the text of handler 1 is a wrapping of
Wrapped(clean(_)) ==
    {q \in Statements : IsStatement(q) /\ clean(q) /\ text[1] \in Wrappings(q)}

CleanAsStated(q) == ~HasFence(q) /\ ~HasLeadingPrefix(q)

CleanOnEveryLine(q) == ~HasFence(q) /\ ~HasPrefixedLine(q)

TimesCalled(h, name) == Cardinality({i \in 1..Len(calls[h]) : calls[h][i] = name})

\* the table_name arguments query_with_pandasai was called with
Hints == {"table_name=" \o d : d \in (Datasets \ {"none"}) \cup {"None"}}

\* C18: with the collaborator available and no LLM key, run_data_question
\* returns the 'LLM API Key Required' message without calling
\* query_with_pandasai or opening a connection; with a key it calls
\* query_with_pandasai exactly once, with the dataset as hint and None for
\* dataset none
C18_KeyCheckedBeforeQuery ==
    (pc[1] = "returned" /\ PANDASAI_AVAILABLE) =>
        IF ~api_key
        THEN /\ answer[1] = Returns([kind |-> "api_key_required"])
             /\ calls[1] = <<>>
             /\ open = {} /\ nextConn = 1
        ELSE /\ TimesCalled(1, "query_with_pandasai") = 1
             /\ calls[1][1] = "query_with_pandasai"
             /\ calls[1][2] = (IF decision[1].dataset = "none" THEN "table_name=None"
                               ELSE "table_name=" \o decision[1].dataset)
             /\ \A i \in 1..Len(calls[1]) : calls[1][i] \in Hints => i = 2

\* a question without dataset went to query_with_pandasai with None
C18_Witness ==
    /\ pc[1] = "returned"
    /\ PANDASAI_AVAILABLE /\ api_key
    /\ decision[1].dataset = "none"
    /\ InCalls(1, "table_name=None")
    /\ answer[1].value.kind = "analysis"

\* C19: help, small_talk, sql_query, list_queries and unknown come with
\* dataset none, prediction with subscriptions, and data_question or
\* generate_sql has dataset none only when the text has no dataset keyword
C19_DatasetMatchesIntent ==
    Routed =>
        /\ (decision[1].intent \in {"help", "small_talk", "sql_query", "list_queries", "unknown"})
              => (decision[1].dataset = "none")
        /\ (decision[1].intent = "prediction") => (decision[1].dataset = "subscriptions")
        /\ (decision[1].intent \in {"data_question", "generate_sql"}
              /\ decision[1].dataset = "none")
              => (CategoriesMentioned = 0)
        /\ decision[1].intent \in Intents
        /\ decision[1].dataset \in Datasets

\* a data question without any dataset keyword got dataset none
C19_Witness ==
    /\ Routed
    /\ decision[1].intent = "data_question"
    /\ decision[1].dataset = "none"
    /\ HasAny(lower1, DATA_PHRASES)

\* handler h has its decision
RoutedBy(h) == pc[h] = "dispatch"

\* the decisions depend on the lower-cased, trimmed text alone
SameTextSameDecision ==
    \A h \in Handlers :
        RoutedBy(h) =>
            /\ decision[h] = route_message(Strip(Lower(text[h])))
            /\ \A g \in Handlers :
                  (RoutedBy(g) /\ Strip(Lower(text[g])) = Strip(Lower(text[h])))
                      => (decision[g] = decision[h])

\* a call changes the caller's decision and nothing else
RouteTouchesOnlyItsDecision ==
    /\ UNCHANGED <<config, event, said, conns, locals, answer, calls, warnings, propagated>>
    /\ \E h \in Handlers :
          \A g \in Handlers \ {h} : decision'[g] = decision[g] /\ pc'[g] = pc[g]

\* C20: route_message returns the same (intent, dataset, reason) for a text,
\* for the text with letters changed in case and for the text with whitespace
\* added around it, in repeated and concurrent calls, and a call modifies no
\* shared state
C20_RoutePureCaseAndSpaceInsensitive ==
    []SameTextSameDecision /\ [][RouteTouchesOnlyItsDecision]_vars

\* two handlers routed different variants of an upper-case SQL keyword text
\* and hold the same sql_query decision
C20_Witness ==
    /\ RoutedBy(1) /\ RoutedBy(NumHandlers)
    /\ text[1] # text[NumHandlers]
    /\ text[1] = Upper(text[1])
    /\ decision[1] = decision[NumHandlers]
    /\ decision[1].intent = "sql_query"

\* handler h has returned from an event without user or without text
IgnoredEvent(h) == pc[h] = "done" /\ (user[h] = "None" \/ text[h] = <<>>)

\* nothing was routed, no collaborator was called and no connection opened
NothingDone(h) ==
    /\ decision[h] = NoDecision
    /\ calls[h] = <<>>
    /\ answer[h] = NoAnswer
    /\ conn[h] = 0
    /\ open = {}

\* C21 as stated: for every event whose user is absent or whose text is absent
\* or empty, each handle_message_events of the repository returns without
\* routing, without calling a collaborator or the data store, and without
\* sending a response
C21_IgnoredEventNoEffect ==
    IgnoredEvent(1) => NothingDone(1) /\ said[1] = <<>>

\* C21 amended: such an event is never routed and reaches no collaborator or
\* data store; an event without user gets no response from either handler,
\* and the only response to an event with a user and an empty text is the
\* echo of the basic handler of core/app.py, never one of main.py
C21_IgnoredEventNoEffectButEcho ==
    IgnoredEvent(1) =>
        /\ NothingDone(1)
        /\ user[1] = "None" => said[1] = <<>>
        /\ said[1] # <<>> => said[1] = <<[kind |-> "echo", text |-> <<>>]>>

\* the handler returned from an event without user, and from one with a user
\* and an empty text, having said nothing
C21_Witness ==
    /\ IgnoredEvent(1)
    /\ user[1] = "U1"
    /\ text[1] = <<>>
    /\ said[1] = <<>>
    /\ events = MaxEvents

\* the functions main.py imports from pandas_agent.py
CollaboratorNames ==
    {"run_data_question", "run_subscription_prediction", "run_sql_query",
     "list_golden_queries", "generate_sql_query"}

\* the call each intent stands for
ExpectedCall(i, d) ==
    CASE i = "data_question" -> <<"run_data_question", "dataset_name=" \o d, "question=text">>
      [] i = "prediction" -> <<"run_subscription_prediction", "question=text">>
      [] i = "sql_query" -> <<"run_sql_query", "sql_text=text">>
      [] i = "list_queries" -> <<"list_golden_queries">>
      [] i = "generate_sql" -> <<"generate_sql_query", "text=text", "dataset=" \o d>>

\* the places in the code of the collaborator of an intent
PlacesOf(i) ==
    CASE i = "data_question" -> {"dq_entry", "qwp_connect", "qwp_read", "qwp_close", "qwp_chat"}
      [] i = "prediction" -> {"pred_connect", "pred_execute", "pred_close", "pred_check",
                              "pred_trend", "pred_forecast", "pred_format", "pred_insight",
                              "pred_return"}
      [] i = "sql_query" -> {"sql_extract", "sql_validate", "sql_connect", "sql_execute",
                             "sql_explain", "sql_close"}
      [] i = "list_queries" -> {"list_queries"}
      [] i = "generate_sql" -> {"generate_sql"}

\* the handler of main.py has left the branch on the intent of its decision
Dispatched(h) ==
    /\ pc[h] \notin {"idle", "route", "dispatch"}
    /\ ~IgnoredEvent(h)
    /\ ~(said[h] # <<>> /\ said[h][1].kind = "echo")

\* C22: for every decision the handler calls exactly the collaborator of the
\* intent, with the arguments in the order of its signature, and no other;
\* for help, small_talk and unknown it sends a static text and calls nothing
C22_OneCollaboratorPerIntent ==
    Dispatched(1) =>
        LET i == decision[1].intent
            d == decision[1].dataset
        IN  IF i \in {"help", "small_talk", "unknown"}
            THEN /\ pc[1] = "done"
                 /\ calls[1] = <<>>
                 /\ answer[1] = NoAnswer
                 /\ conn[1] = 0
                 /\ open = {}
                 /\ said[1] = <<[kind |-> IF i = "help" THEN "help_text"
                                          ELSE "fallback_text"]>>
            ELSE /\ Len(calls[1]) >= Len(ExpectedCall(i, d))
                 /\ SubSeq(calls[1], 1, Len(ExpectedCall(i, d))) = ExpectedCall(i, d)
                 /\ TimesCalled(1, ExpectedCall(i, d)[1]) = 1
                 /\ \A n \in CollaboratorNames \ {ExpectedCall(i, d)[1]} : ~InCalls(1, n)
                 /\ pc[1] \in PlacesOf(i) \cup {"returned", "done"}

\* a request to generate SQL for a dataset was answered by generate_sql_query
C22_Witness ==
    /\ pc[1] = "done"
    /\ decision[1].intent = "generate_sql"
    /\ decision[1].dataset = "subscriptions"
    /\ calls[1] = <<"generate_sql_query", "text=text", "dataset=subscriptions">>
    /\ Len(said[1]) = 1
    /\ said[1][1].kind = "answer"

\* C23: the generate-SQL branch and the dataset-inference step both resolve
\* the dataset to the last category, in the order users, payments,
\* subscriptions, sessions, with a keyword in the text, none when there is
\* no such category, and they resolve every text to the same dataset
C23_LastCategoryWinsInBothSteps ==
    Routed =>
        /\ GenerateSqlDataset(lower1) = LastCategory
        /\ ResolveDataset(lower1) = LastCategory
        /\ decision[1].intent = "generate_sql" => decision[1].dataset = LastCategory
        /\ (decision[1].intent = "data_question" /\ CategoriesMentioned > 0)
              => decision[1].dataset = LastCategory
        /\ decision[1].intent = "prediction" => LastCategory = "subscriptions"

\* a request to generate SQL names subscriptions before users and is resolved
\* to subscriptions, the later category in the fixed order
C23_Witness ==
    /\ Routed
    /\ decision[1] = RouteDecision("generate_sql", "subscriptions",
                                   "Matched generate SQL keywords")
    /\ CategoriesMentioned = 2
    /\ MentionsUsers
    /\ Contains(lower1, <<"c","h","u","r","n"," ","b","y"," ","r","e","g","i","o","n">>)

\* the text of handler 1 has a holiday or seasonal keyword
MentionsHoliday == HasAny(lower1, HOLIDAY_KEYWORDS)

\* no rule before the data-question step returned the decision
ReachesDataQuestionStep ==
    decision[1].intent \notin {"help", "generate_sql", "list_queries", "sql_query", "prediction"}

\* C24: a text with a holiday keyword that reaches the data-question step is
\* a data_question; its dataset is payments when no dataset keyword matched
\* and the inferred dataset otherwise, never none
C24_HolidayDefaultsToPayments ==
    (Routed /\ MentionsHoliday /\ ReachesDataQuestionStep) =>
        /\ decision[1].intent = "data_question"
        /\ decision[1].dataset = IF CategoriesMentioned = 0 THEN "payments" ELSE LastCategory
        /\ decision[1].dataset # "none"

\* 'q4' with a sessions keyword keeps sessions
C24_Witness ==
    /\ Routed
    /\ MentionsHoliday
    /\ MentionsSessions
    /\ ~MentionsPayments
    /\ decision[1].intent = "data_question"
    /\ decision[1].dataset = "sessions"

\* 'q4' alone is a question about payments
C24_WitnessDefault ==
    /\ Routed
    /\ MentionsHoliday
    /\ CategoriesMentioned = 0
    /\ decision[1] = RouteDecision("data_question", "payments",
                                   DataQuestionReason("payments"))

\* the sums of the least-squares fit of the series of handler 1
SumX == SumSeq([i \in 1..Len(series1) |-> OffsetFromFirst(i)])

SumY == SumSeq([i \in 1..Len(series1) |-> series1[i][3]])

SumXY == SumSeq([i \in 1..Len(series1) |-> OffsetFromFirst(i) * series1[i][3]])

SumXSquared == SumSeq([i \in 1..Len(series1) |-> OffsetFromFirst(i) * OffsetFromFirst(i)])

\* n * sum(x^2) - (sum x)^2
Denominator == Len(series1) * SumXSquared - SumX * SumX

\* C25: on a series of two or more entries the denominator is zero exactly
\* when all entries are in the same month, and then the fit returns slope 0
\* and the mean of the counts; otherwise the denominator is positive and the
\* slope and intercept returned solve the two normal equations
C25_DegenerateFitIsFlatMean ==
    (pc[1] = "fit_returned" /\ Len(series1) >= 2) =>
        /\ ~answer[1].raised
        /\ (Denominator = 0) <=> ~TwoMonths
        /\ Denominator >= 0
        /\ IF ~TwoMonths
           THEN /\ trend[1].slope = FromInt(0)
                /\ RMul(trend[1].intercept, FromInt(Len(series1))) = FromInt(SumY)
           ELSE /\ RMul(trend[1].slope, FromInt(Denominator))
                      = FromInt(Len(series1) * SumXY - SumX * SumY)
                /\ RAdd(RMul(trend[1].intercept, FromInt(Len(series1))),
                        RMul(trend[1].slope, FromInt(SumX))) = FromInt(SumY)

\* three entries of one month with different counts gave the flat line
\* through their mean
C25_Witness ==
    /\ pc[1] = "fit_returned"
    /\ Len(series1) = MaxSeriesLen
    /\ ~TwoMonths
    /\ \E i \in 2..Len(series1) : series1[i][3] # series1[1][3]
    /\ trend[1].slope = FromInt(0)
    /\ trend[1].intercept[2] # 1

\* C26: a result of N rows is shown with at most max_rows data rows; exactly
\* when N > max_rows the text has the truncation notice, and its 'of N rows',
\* '... and N - max_rows more rows' and 'Total rows returned' figures are
\* those of the N rows returned; when N <= max_rows all N rows are shown and
\* there is no truncation text
C26_TruncationReportsOriginalCount ==
    (pc[1] = "sql_explain" /\ store.rows > 0) =>
        LET N == store.rows
            r == base_response[1]
        IN  /\ r.kind = "table"
            /\ r.shown <= DefaultMaxRows
            /\ r.total = N
            /\ IF N > DefaultMaxRows
               THEN /\ r.warning = <<"Showing first", DefaultMaxRows, "of", N>>
                    /\ r.more = <<"and", N - DefaultMaxRows, "more rows">>
               ELSE /\ r.shown = N
                    /\ r.warning = <<>>
                    /\ r.more = <<>>

\* the tokens of a statement, line after line
RECURSIVE Tokens(_)
Tokens(lines) == IF lines = <<>> THEN <<>> ELSE Head(lines) \o Tokens(Tail(lines))

\* the place of the first occurrence of a token, 0 when it does not occur
IndexOf(tok, toks) ==
    IF \E i \in 1..Len(toks) : toks[i] = tok
    THEN CHOOSE i \in 1..Len(toks) : toks[i] = tok /\ \A j \in 1..(i - 1) : toks[j] # tok
    ELSE 0

Occurrences(tok, toks) == Cardinality({i \in 1..Len(toks) : toks[i] = tok})

\* the column references through the aliases u and s
UColumns == {"u.country", "u.user_id"}

SColumns == {"s.subscription_id", "s.plan", "s.start_date", "s.end_date", "s.status", "s.user_id"}

\* the select list is a comma-separated list that does not end in a comma
SelectListWellFormed(toks) ==
    LET from == IndexOf("FROM", toks)
    IN  /\ toks[1] = "SELECT"
        /\ from > 2
        /\ toks[2] # ","
        /\ toks[from - 1] # ","
        /\ \A i \in 2..(from - 2) : ~(toks[i] = "," /\ toks[i + 1] = ",")

\* every alias used is introduced by FROM or JOIN
AliasesIntroduced(toks) ==
    /\ (\E i \in 1..Len(toks) : toks[i] \in UColumns)
          => \E i \in 2..(Len(toks) - 1) :
                toks[i - 1] = "JOIN" /\ toks[i] = "users" /\ toks[i + 1] = "u"
    /\ (\E i \in 1..Len(toks) : toks[i] \in SColumns)
          => \E i \in 2..(Len(toks) - 1) :
                toks[i - 1] = "FROM" /\ toks[i] = "subscriptions" /\ toks[i + 1] = "s"

\* SELECT, FROM, [JOIN], [WHERE], [GROUP BY], ORDER BY, [LIMIT], each at most once
ClausesInOrder(toks) ==
    LET at == [k \in {"SELECT", "FROM", "JOIN", "WHERE", "GROUP", "ORDER", "LIMIT"} |->
                 IndexOf(k, toks)]
        order == <<"SELECT", "FROM", "JOIN", "WHERE", "GROUP", "ORDER", "LIMIT">>
    IN  /\ at["SELECT"] = 1 /\ at["FROM"] > 0 /\ at["ORDER"] > 0
        /\ \A k \in DOMAIN at : Occurrences(k, toks) <= 1
        /\ \A i, j \in 1..Len(order) :
              (i < j /\ at[order[i]] > 0 /\ at[order[j]] > 0) => at[order[i]] < at[order[j]]
        /\ at["GROUP"] > 0 => toks[at["GROUP"] + 1] = "BY"
        /\ toks[at["ORDER"] + 1] = "BY"
        /\ toks[Len(toks)] = ";"

\* generate_sql_query has returned a response with a statement
Generated == pc[1] = "returned" /\ ~answer[1].raised /\ answer[1].value.kind = "generated_sql"

\* C27: for every combination of detected filters the statement built by
\* _generate_subscriptions_sql is a well-formed SELECT: a comma-separated
\* select list without a trailing comma before FROM, every alias used (s, u)
\* introduced in FROM/JOIN, and the clauses in the order SELECT, FROM, [JOIN],
\* [WHERE], [GROUP BY], ORDER BY, [LIMIT]
C27_SubscriptionsSqlWellFormed ==
    (Generated /\ decision[1].dataset = "subscriptions") =>
        LET toks == Tokens(answer[1].value.sql)
        IN  /\ SelectListWellFormed(toks)
            /\ AliasesIntroduced(toks)
            /\ ClausesInOrder(toks)

\* apart from the select list, the statement is as C27 says
C27_AliasesAndClauseOrder ==
    (Generated /\ decision[1].dataset = "subscriptions") =>
        LET toks == Tokens(answer[1].value.sql)
        IN  AliasesIntroduced(toks) /\ ClausesInOrder(toks)

\* the tokens of the WHERE clause of a statement: from WHERE up to GROUP BY,
\* ORDER BY or the end
WhereTokens(toks) ==
    LET w == IndexOf("WHERE", toks)
        ends == {i \in (w + 1)..Len(toks) : toks[i] \in {"GROUP", "ORDER", "LIMIT", ";"}}
    IN  IF w = 0 THEN <<>>
        ELSE SubSeq(toks, w + 1, (CHOOSE i \in ends : \A j \in ends : i <= j) - 1)

\* the interval of a date range
IntervalOf(value) ==
    CASE value = "last_month" -> "'30 days'"
      [] value = "last_quarter" -> "'90 days'"
      [] value = "last_year" -> "'365 days'"

\* the statement has the WHERE condition or GROUP BY clause of the filter
Reflected(key, value, toks) ==
    LET where == WhereTokens(toks)
    IN  CASE key = "region" ->
               \E i \in 1..Len(where) : where[i] = "u.country"
          [] key = "status" ->
               \E i \in 1..Len(where) :
                   /\ where[i] = "s.end_date"
                   /\ i + 2 <= Len(where)
                   /\ where[i + 1] = "IS"
                   /\ IF value = "active" THEN where[i + 2] = "NULL" ELSE where[i + 2] = "NOT"
          [] key = "date_range" ->
               \E i \in 1..Len(where) :
                   /\ where[i] = "s.start_date"
                   /\ \E j \in i..Len(where) : where[j] = IntervalOf(value)
          [] key = "group_by" ->
               \E i \in 1..(Len(toks) - 2) :
                   /\ toks[i] = "GROUP" /\ toks[i + 1] = "BY"
                   /\ toks[i + 2] = IF value = "plan" THEN "plan" ELSE "u.country"

\* C28: for every request and every dataset other than none, each filter
\* listed under 'Applied filters' has its WHERE condition or GROUP BY clause
\* in the statement of the same response
C28_AppliedFiltersAreInTheSql ==
    Generated =>
        \A i \in 1..Len(answer[1].value.applied) :
            Reflected(answer[1].value.applied[i][1], answer[1].value.applied[i][2],
                      Tokens(answer[1].value.sql))

\* for subscriptions every listed filter other than the region is in the
\* statement, and so is the region EU
C28_SubscriptionsFiltersButRegionUS ==
    (Generated /\ decision[1].dataset = "subscriptions") =>
        \A i \in 1..Len(answer[1].value.applied) :
            answer[1].value.applied[i] # <<"region", "US">>
                => Reflected(answer[1].value.applied[i][1], answer[1].value.applied[i][2],
                             Tokens(answer[1].value.sql))

\* a response for subscriptions lists region EU, a status, a date range and
\* a grouping
C28_AllFourFiltersListed ==
    /\ Generated
    /\ decision[1].dataset = "subscriptions"
    /\ Len(answer[1].value.applied) = 4
    /\ answer[1].value.applied[1] = <<"region", "EU">>

\* the places of run_subscription_prediction after the historical fetch
AfterFetch ==
    {"pred_check", "pred_trend", "pred_forecast", "pred_format", "pred_insight", "pred_return"}

\* where the connections stand at each place of the two functions
ReleaseOrder ==
    /\ pc[1] \in AfterFetch => (conn[1] = 0 /\ open = {})
    /\ (decision[1].intent = "prediction"
           /\ (InCalls(1, "_calculate_linear_trend")
                 \/ InCalls(1, "_predict_future_subscriptions")
                 \/ InCalls(1, "analyze_with_llm")))
          => open = {}
    /\ pc[1] \in {"sql_execute", "sql_explain", "sql_close"} => (conn[1] # 0 /\ conn[1] \in open)
    /\ (pc[1] = "returned" /\ decision[1].intent = "sql_query") => (conn[1] = 0 /\ open = {})

\* the fit, the forecast and the insight call run without a connection; the
\* explanation call runs with the connection open and leaves it open
LlmCallsAndConnection ==
    /\ pc[1] \in {"pred_trend", "pred_forecast", "pred_insight"} => (open = {} /\ open' = {})
    /\ pc[1] = "sql_explain" => (conn[1] \in open /\ open' = open /\ conn' = conn)
    /\ (pc[1] = "sql_close" /\ pc'[1] = "returned")
          => (conn[1] \in open /\ open' = {} /\ answer'[1] # NoAnswer)

\* C29: in run_subscription_prediction the connection of the historical fetch
\* is closed before the fit, the forecast and the LLM insight call start; in
\* run_sql_query the connection stays open during the whole LLM explanation
\* call and is closed only when the response has been assembled or an
\* exception has left the block
C29_ConnectionReleaseVersusLlmCall ==
    []ReleaseOrder /\ [][LlmCallsAndConnection]_vars

\* the explanation call has returned and the connection of the statement is
\* still open
C29_Witness ==
    /\ pc[1] = "sql_close"
    /\ InCalls(1, "explain_with_llm")
    /\ conn[1] \in open
    /\ pending[1] = NoException

\* the insight call has returned, and no connection is open
C29_WitnessPrediction ==
    /\ pc[1] = "pred_return"
    /\ InCalls(1, "analyze_with_llm")
    /\ open = {}

\* the details of the errors of the two lower-level functions
LowerLevelErrors ==
    {"Need at least 2 data points to calculate trend",
     "Need historical data to make predictions"}

\* C30: inside run_subscription_prediction the fit is only called on a
\* history of at least 6 entries and the forecast only on a non-empty one, so
\* neither raises its insufficient-data error and no response carries it
C30_LowerLevelErrorsUnreachable ==
    /\ InCalls(1, "_calculate_linear_trend") => Len(historical_data[1]) >= MinHistoryMonths
    /\ InCalls(1, "_predict_future_subscriptions") => Len(historical_data[1]) >= 1
    /\ pc[1] = "pred_trend"
          => /\ Len(historical_data[1]) >= MinHistoryMonths
             /\ ~_calculate_linear_trend(historical_data[1]).raised
    /\ pc[1] = "pred_forecast"
          => /\ Len(historical_data[1]) >= 1
             /\ ~_predict_future_subscriptions(historical_data[1], trend[1].slope,
                                               trend[1].intercept).raised
    /\ (pc[1] = "returned" /\ answer[1].value.kind = "prediction_value_error")
          => answer[1].value.detail \notin LowerLevelErrors

\* a history of exactly six months went through the fit and the forecast
C30_Witness ==
    /\ pc[1] = "returned"
    /\ Len(historical_data[1]) = MinHistoryMonths
    /\ InCalls(1, "_predict_future_subscriptions")
    /\ CalledAfter(1, "_predict_future_subscriptions", "_calculate_linear_trend")
    /\ answer[1].value.kind \notin {"prediction_value_error", "prediction_error"}

====
